---- MODULE Spec2Model ----
(***************************************************************************)
(* Deterministic metrics engine of See-Your-Future-Health: the calculators *)
(* of services/geminiService.ts (BMI, FINDRISC, CVD proxy, legacy health   *)
(* score, A1-A6 classifiers, AHA Life's Essential 8 summary) and the       *)
(* calculation block of generateHealthProjection that applies them.        *)
(*                                                                         *)
(* JavaScript numbers are IEEE-754 doubles.  Where the code multiplies or  *)
(* adds non-integers before rounding (toFixed, Math.round) the model       *)
(* carries the double itself: a sign and a magnitude counted in units of   *)
(* 2^-FracBits, kept to 53 significant bits with round-half-to-even after  *)
(* every operation.  Magnitudes are arbitrary-precision naturals stored as *)
(* little-endian sequences of LimbBits-bit limbs.                          *)
(***************************************************************************)
EXTENDS Integers, Sequences, FiniteSets, TLC

(***************************************************************************)
(* Arbitrary-precision naturals (the mantissa arithmetic of a double).     *)
(***************************************************************************)
LimbBits == 14
Base == 16384
SigBits == 53
FracBits == 56

\* 2^k for k < LimbBits
Pow2(k) == <<1, 2, 4, 8, 16, 32, 64, 128, 256, 512, 1024, 2048, 4096, 8192>>[k + 1]

Min(a, b) == IF a < b THEN a ELSE b
Max(a, b) == IF a > b THEN a ELSE b

RECURSIVE Trim(_)
Trim(a) ==
  IF a = <<>> THEN <<>>
  ELSE IF a[Len(a)] = 0 THEN Trim(SubSeq(a, 1, Len(a) - 1)) ELSE a

Limb(a, i) == IF i <= Len(a) THEN a[i] ELSE 0

Rest(a) == IF a = <<>> THEN <<>> ELSE Tail(a)

RECURSIVE BFromInt(_)
BFromInt(n) == IF n = 0 THEN <<>> ELSE <<n % Base>> \o BFromInt(n \div Base)

RECURSIVE BToInt(_)
BToInt(a) == IF a = <<>> THEN 0 ELSE a[1] + Base * BToInt(Tail(a))

RECURSIVE BAddC(_, _, _)
BAddC(a, b, c) ==
  IF a = <<>> /\ b = <<>> THEN BFromInt(c)
  ELSE LET s == Limb(a, 1) + Limb(b, 1) + c
       IN  <<s % Base>> \o BAddC(Rest(a), Rest(b), s \div Base)

BAdd(a, b) == BAddC(a, b, 0)

\* a - b for a >= b
RECURSIVE BSubB(_, _, _)
BSubB(a, b, br) ==
  IF a = <<>> THEN <<>>
  ELSE LET d == a[1] - Limb(b, 1) - br
       IN  <<IF d < 0 THEN d + Base ELSE d>>
             \o BSubB(Tail(a), Rest(b), IF d < 0 THEN 1 ELSE 0)

BSub(a, b) == Trim(BSubB(a, b, 0))

\* -1, 0, 1 as a < b, a = b, a > b (both without leading zero limbs)
RECURSIVE BCmpFrom(_, _, _)
BCmpFrom(a, b, i) ==
  IF i = 0 THEN 0
  ELSE IF a[i] < b[i] THEN -1
  ELSE IF a[i] > b[i] THEN 1
  ELSE BCmpFrom(a, b, i - 1)

BCmp(a, b) ==
  IF Len(a) < Len(b) THEN -1
  ELSE IF Len(a) > Len(b) THEN 1
  ELSE BCmpFrom(a, b, Len(a))

RECURSIVE BMulSmallC(_, _, _)
BMulSmallC(a, c, carry) ==
  IF a = <<>> THEN BFromInt(carry)
  ELSE LET p == a[1] * c + carry
       IN  <<p % Base>> \o BMulSmallC(Tail(a), c, p \div Base)

BMulSmall(a, c) == Trim(BMulSmallC(a, c, 0))

ShiftLimbs(a, n) == IF a = <<>> THEN <<>> ELSE [i \in 1..n |-> 0] \o a

RECURSIVE BMul(_, _)
BMul(a, b) ==
  IF b = <<>> \/ a = <<>> THEN <<>>
  ELSE BAdd(BMulSmall(a, b[1]), ShiftLimbs(BMul(a, Tail(b)), 1))

\* quotient and remainder of a by a small divisor c (c <= 2^16)
RECURSIVE BDivRemRaw(_, _)
BDivRemRaw(a, c) ==
  IF a = <<>> THEN [q |-> <<>>, r |-> 0]
  ELSE LET hi  == BDivRemRaw(Tail(a), c)
           cur == hi.r * Base + a[1]
       IN  [q |-> <<cur \div c>> \o hi.q, r |-> cur % c]

BDivRem(a, c) == LET x == BDivRemRaw(a, c) IN [q |-> Trim(x.q), r |-> x.r]

DropLimbs(a, n) == IF n >= Len(a) THEN <<>> ELSE SubSeq(a, n + 1, Len(a))

ShiftLeft(a, k) ==
  ShiftLimbs(IF k % LimbBits = 0 THEN a ELSE BMulSmall(a, Pow2(k % LimbBits)),
             k \div LimbBits)

ShiftRight(a, k) ==
  IF k % LimbBits = 0 THEN DropLimbs(a, k \div LimbBits)
  ELSE BDivRem(DropLimbs(a, k \div LimbBits), Pow2(k % LimbBits)).q

RECURSIVE IntBitLen(_)
IntBitLen(n) == IF n = 0 THEN 0 ELSE 1 + IntBitLen(n \div 2)

BitLen(a) == IF a = <<>> THEN 0 ELSE (Len(a) - 1) * LimbBits + IntBitLen(a[Len(a)])

IsOdd(a) == a # <<>> /\ a[1] % 2 = 1

\* the nearest natural with at most SigBits significant bits, ties to even
Round53(a) ==
  IF BitLen(a) <= SigBits THEN a
  ELSE LET d    == BitLen(a) - SigBits
           q    == ShiftRight(a, d)
           rem  == BSub(a, ShiftLeft(q, d))
           half == ShiftLeft(<<1>>, d - 1)
           c    == BCmp(rem, half)
           up   == c = 1 \/ (c = 0 /\ IsOdd(q))
       IN  ShiftLeft(IF up THEN BAdd(q, <<1>>) ELSE q, d)

(***************************************************************************)
(* Doubles: [neg, mag] stands for (-1)^neg * mag * 2^-FracBits.            *)
(***************************************************************************)
DFromInt(n) ==
  [neg |-> n < 0, mag |-> ShiftLeft(BFromInt(IF n < 0 THEN 0 - n ELSE n), FracBits)]

\* the double nearest to num/den for naturals num and den (0 < den <= 2^16): a
\* decimal literal, or the quotient num / den of two integers
DFromRatio(num, den) ==
  LET wide == BDivRem(ShiftLeft(BFromInt(num), 2 * FracBits), den)
      \* a sticky unit keeps an inexact quotient off the halfway point
      sticky == IF wide.r = 0 THEN wide.q
                ELSE BAdd(ShiftLeft(ShiftRight(wide.q, 1), 1), <<1>>)
  IN  [neg |-> FALSE, mag |-> ShiftRight(Round53(sticky), FracBits)]

DMul(x, y) ==
  [neg |-> (x.neg # y.neg) /\ x.mag # <<>> /\ y.mag # <<>>,
   mag |-> ShiftRight(Round53(BMul(x.mag, y.mag)), FracBits)]

DNeg(x) == [neg |-> ~x.neg /\ x.mag # <<>>, mag |-> x.mag]

DAdd(x, y) ==
  IF x.neg = y.neg THEN [neg |-> x.neg, mag |-> Round53(BAdd(x.mag, y.mag))]
  ELSE LET c == BCmp(x.mag, y.mag)
       IN  IF c = 0 THEN [neg |-> FALSE, mag |-> <<>>]
           ELSE IF c = 1 THEN [neg |-> x.neg, mag |-> Round53(BSub(x.mag, y.mag))]
           ELSE [neg |-> y.neg, mag |-> Round53(BSub(y.mag, x.mag))]

DSub(x, y) == DAdd(x, DNeg(y))

\* x < y
DLess(x, y) ==
  IF x.neg # y.neg THEN x.neg
  ELSE IF x.neg THEN BCmp(x.mag, y.mag) = 1
  ELSE BCmp(x.mag, y.mag) = -1

\* floor(mag * mul / 2^FracBits + 1/2): the nearest integer, a tie going up
RoundHalfUp(mag, mul) ==
  BToInt(ShiftRight(BAdd(BMulSmall(mag, mul), ShiftLeft(<<1>>, FracBits - 1)), FracBits))

\* ceil(mag / 2^FracBits - 1/2): the nearest integer, a tie going down
RoundHalfDown(mag) ==
  LET half == ShiftLeft(<<1>>, FracBits - 1)
  IN  IF BCmp(mag, half) # 1 THEN 0
      ELSE LET y  == BSub(mag, half)
               fl == ShiftRight(y, FracBits)
           IN  BToInt(fl) + (IF BCmp(ShiftLeft(fl, FracBits), y) = 0 THEN 0 ELSE 1)

\* Number(x.toFixed(1)) for x >= 0, in tenths: n with n/10 nearest to x, the
\* larger n on a tie
ToFixed1(x) == RoundHalfUp(x.mag, 10)

\* Math.round(x): the nearest integer, ties toward +infinity
MathRound(x) == IF x.neg THEN 0 - RoundHalfDown(x.mag) ELSE RoundHalfUp(x.mag, 1)

\* the largest d with b * d <= cur, searched downwards from the estimate d
RECURSIVE QCorrect(_, _, _)
QCorrect(cur, b, d) ==
  IF BCmp(BMulSmall(b, d), cur) = 1 THEN QCorrect(cur, b, d - 1) ELSE d

\* the next limb of the quotient: cur < b * Base and the top limb of b is at
\* least Base / 2, so the two-limb estimate is at most 2 too large
QDigit(cur, b) ==
  IF BCmp(cur, b) = -1 THEN 0
  ELSE QCorrect(cur, b,
         Min(Base - 1,
             (Limb(cur, Len(b) + 1) * Base + Limb(cur, Len(b))) \div b[Len(b)]))

\* long division of a by b # 0 from limb i of a downwards, one limb of the
\* quotient at a time; r is the running remainder, q the quotient so far
RECURSIVE BDivStep(_, _, _, _, _)
BDivStep(a, b, i, r, q) ==
  IF i = 0 THEN [q |-> Trim(q), exact |-> r = <<>>]
  ELSE LET cur == Trim(<<a[i]>> \o r)
           d   == QDigit(cur, b)
       IN  IF d = 0
           THEN BDivStep(a, b, i - 1, cur, <<0>> \o q)
           ELSE BDivStep(a, b, i - 1, BSub(cur, BMulSmall(b, d)), <<d>> \o q)

\* floor(a / b) and whether the division is exact, for b # 0; both are first
\* scaled so that the top limb of b is at least Base / 2
BDivBig(a, b) ==
  LET s  == LimbBits - IntBitLen(b[Len(b)])
      an == ShiftLeft(a, s)
  IN  BDivStep(an, ShiftLeft(b, s), Len(an), <<>>, <<>>)

\* x / y for y # 0
DDiv(x, y) ==
  LET num    == ShiftLeft(x.mag, 2 * FracBits)
      wide   == BDivBig(num, y.mag)
      sticky == IF wide.exact THEN wide.q
                ELSE BAdd(ShiftLeft(ShiftRight(wide.q, 1), 1), <<1>>)
  IN  [neg |-> (x.neg # y.neg) /\ x.mag # <<>>,
       mag |-> ShiftRight(Round53(sticky), FracBits)]

\* Number(x.toFixed(2)) for x >= 0, in hundredths
ToFixed2(x) == RoundHalfUp(x.mag, 100)

(***************************************************************************)
(* types.ts: enums and the UserProfile record.                             *)
(*   sleepHours is held in half hours (the slider step); yearsSinceQuit,   *)
(*   a1c, ldl, totalChol and fasting in tenths of their unit; bmi, the CVD *)
(*   proxy and packYears                                                   *)
(*   are held in tenths, whr in hundredths (the decimals toFixed keeps).   *)
(*   existingConditions is the set of the array's entries.                 *)
(***************************************************************************)
Male == "Male"
Female == "Female"
Other == "Other"
Gender == {Male, Female, Other}

Sedentary == "Sedentary (Office job, little exercise)"
Light == "Light (1-2 days/week)"
Moderate == "Moderate (3-5 days/week)"
Active == "Active (6-7 days/week)"
ActivityLevel == {Sedentary, Light, Moderate, Active}

Poor == "Heavy processed foods/sugar"
Average == "Balanced but occasional junk"
Good == "Whole foods, fruits, vegetables"
DietQuality == {Poor, Average, Good}

Never == "Never"
Rarely == "1-2x per month"
Weekly == "1-2x per week"
Frequent == "3+ times per week"
FastFoodFrequency == {Never, Rarely, Weekly, Frequent}

\* an optional number that was not supplied
Undefined == -1

\* an optional record (bp, lipids, glucose) that was not supplied
NotProvided == [provided |-> FALSE]

\* JavaScript truthiness of an optional number: neither undefined nor 0
Truthy(n) == n # Undefined /\ n # 0

\* (n || 0)
OrZero(n) == IF Truthy(n) THEN n ELSE 0

(***************************************************************************)
(* Metric calculators.                                                     *)
(***************************************************************************)
\* Number((w / (hm * hm)).toFixed(1)), in tenths
bmiOfMetres(hm, w) == ToFixed1(DDiv(DFromInt(w), DMul(hm, hm)))

calculateBMI(h, w) == bmiOfMetres(DFromRatio(h, 100), w)

\* Number((waist / hip).toFixed(2)), in hundredths
calculateWHR(waist, hip) == ToFixed2(DFromRatio(waist, hip))

findriscAge(p) ==
  IF p.age >= 45 /\ p.age <= 54 THEN 2
  ELSE IF p.age >= 55 /\ p.age <= 64 THEN 3
  ELSE IF p.age > 64 THEN 4
  ELSE 0

\* findriscBmi with both BMI bounds taken exclusive (BMI 30.0 scores 3)
findriscBmiExclusive(bmi) ==
  IF bmi > 250 /\ bmi < 300 THEN 1
  ELSE IF bmi >= 300 THEN 3
  ELSE 0

findriscBmi(bmi) ==
  IF bmi >= 250 /\ bmi <= 300 THEN 1
  ELSE IF bmi > 300 THEN 3
  ELSE 0

\* findriscWaist without the gender test (the female thresholds for everyone)
findriscWaistUnisex(p) ==
  IF p.waistCm >= 80 /\ p.waistCm <= 88 THEN 3
  ELSE IF p.waistCm > 88 THEN 4 ELSE 0

\* findriscWaist with the male thresholds for everyone who is not female
findriscWaistMaleUnlessFemale(p) ==
  IF p.gender # Female
  THEN IF p.waistCm >= 94 /\ p.waistCm <= 102 THEN 3
       ELSE IF p.waistCm > 102 THEN 4 ELSE 0
  ELSE IF p.waistCm >= 80 /\ p.waistCm <= 88 THEN 3
       ELSE IF p.waistCm > 88 THEN 4 ELSE 0

findriscWaist(p) ==
  IF p.gender = Male
  THEN IF p.waistCm >= 94 /\ p.waistCm <= 102 THEN 3
       ELSE IF p.waistCm > 102 THEN 4 ELSE 0
  ELSE IF p.waistCm >= 80 /\ p.waistCm <= 88 THEN 3
       ELSE IF p.waistCm > 88 THEN 4 ELSE 0

\* findriscActivity scoring 4 points instead of 2
findriscActivityFour(p) ==
  IF p.activityLevel = Sedentary \/ p.activityLevel = Light THEN 4 ELSE 0

findriscActivity(p) ==
  IF p.activityLevel = Sedentary \/ p.activityLevel = Light THEN 2 ELSE 0

findriscDiet(p) == IF p.dietQuality = Poor THEN 1 ELSE 0

findriscHypertension(p) == IF "Hypertension" \in p.existingConditions THEN 2 ELSE 0

calculateFindrisc(p, bmi) ==
  findriscAge(p) + findriscBmi(bmi) + findriscWaist(p)
    + findriscActivity(p) + findriscDiet(p) + findriscHypertension(p)

\* the probability mapping with the top band starting at 20 instead of above 20
diabetesProbabilityFrom20(findriscScore) ==
  IF findriscScore >= 7 /\ findriscScore <= 11 THEN 4
  ELSE IF findriscScore >= 12 /\ findriscScore <= 14 THEN 17
  ELSE IF findriscScore >= 15 /\ findriscScore < 20 THEN 33
  ELSE IF findriscScore >= 20 THEN 50
  ELSE 1

\* the FINDRISC probability mapping of generateHealthProjection
diabetesProbability(findriscScore) ==
  IF findriscScore >= 7 /\ findriscScore <= 11 THEN 4
  ELSE IF findriscScore >= 12 /\ findriscScore <= 14 THEN 17
  ELSE IF findriscScore >= 15 /\ findriscScore <= 20 THEN 33
  ELSE IF findriscScore > 20 THEN 50
  ELSE 1

\* the double literals 0.2, 1.2, 1.3, 1.5 and 2.0 of calculateCVDRiskProxy, each the
\* double nearest to the decimal (DFromRatio(2, 10), DFromRatio(12, 10), ...)
D0_2 == [neg |-> FALSE, mag |-> <<13108, 3276, 13107, 3276>>]
D1_2 == [neg |-> FALSE, mag |-> <<13104, 3276, 13107, 3276, 1>>]
D1_3 == [neg |-> FALSE, mag |-> <<3280, 13107, 3276, 4915, 1>>]
D1_5 == [neg |-> FALSE, mag |-> <<0, 0, 0, 8192, 1>>]
D2_0 == [neg |-> FALSE, mag |-> <<0, 0, 0, 0, 2>>]

\* riskScore after the additive age term
cvdBase(p) ==
  IF p.age > 40 THEN DAdd(DFromInt(1), DMul(DFromInt(p.age - 40), D0_2))
  ELSE DFromInt(1)

\* the multipliers that apply to p, in the order the code applies them
cvdMultipliers(p, bmi) ==
     (IF p.gender = Male THEN <<D1_3>> ELSE <<>>)
  \o (IF p.smoker THEN <<D2_0>> ELSE <<>>)
  \o (IF bmi > 300 THEN <<D1_5>> ELSE IF bmi > 250 THEN <<D1_2>> ELSE <<>>)
  \o (IF "Hypertension" \in p.existingConditions THEN <<D1_5>> ELSE <<>>)
  \o (IF "Type 2 Diabetes" \in p.existingConditions THEN <<D2_0>> ELSE <<>>)
  \o (IF "High Cholesterol" \in p.existingConditions THEN <<D1_3>> ELSE <<>>)
  \o (IF p.activityLevel = Sedentary THEN <<D1_2>> ELSE <<>>)

\* riskScore *= m for each m of ms, left to right
RECURSIVE cvdApply(_, _)
cvdApply(riskScore, ms) ==
  IF ms = <<>> THEN riskScore ELSE cvdApply(DMul(riskScore, Head(ms)), Tail(ms))

\* cvdFinish without the Math.min(99, ...)
cvdFinishUncapped(riskScore) == ToFixed1(riskScore)

\* Math.min(99, Number(riskScore.toFixed(1))), in tenths
cvdFinish(riskScore) == Min(990, ToFixed1(riskScore))

calculateCVDRiskProxy(p, bmi) == cvdFinish(cvdApply(cvdBase(p), cvdMultipliers(p, bmi)))

\* the double literal 0.3
D0_3 == [neg |-> FALSE, mag |-> <<3276, 13107, 3276, 4915>>]

\* score = 100 - (p.age - 20) * 0.3
healthScoreAge(p) == DSub(DFromInt(100), DMul(DFromInt(p.age - 20), D0_3))

\* if (bmi > 30) score -= 15; else if (bmi > 25) score -= 5
healthScoreBmi(score, bmi) ==
  IF bmi > 300 THEN DSub(score, DFromInt(15))
  ELSE IF bmi > 250 THEN DSub(score, DFromInt(5)) ELSE score

\* if (smoker) score -= 20
healthScoreSmoker(score, smoker) == IF smoker THEN DSub(score, DFromInt(20)) ELSE score

\* Sedentary: score -= 10; Active: score += 5
healthScoreActivity(score, p) ==
  IF p.activityLevel = Sedentary THEN DSub(score, DFromInt(10))
  ELSE IF p.activityLevel = Active THEN DAdd(score, DFromInt(5)) ELSE score

\* score -= p.existingConditions.length * 10
healthScoreConditions(score, p) ==
  DSub(score, DFromInt(Cardinality(p.existingConditions) * 10))

\* if (p.sleepHours < 6) score -= 5
healthScoreSleep(score, p) == IF p.sleepHours < 12 THEN DSub(score, DFromInt(5)) ELSE score

\* the score before rounding and clamping
healthScoreRaw(p, bmi, smoker) ==
  healthScoreSleep(
    healthScoreConditions(
      healthScoreActivity(
        healthScoreSmoker(healthScoreBmi(healthScoreAge(p), bmi), smoker), p), p), p)

\* calculateHealthScore without the lower clamp Math.max(10, ...)
calculateHealthScoreNoFloor(p, bmi, smoker) ==
  Min(100, MathRound(healthScoreRaw(p, bmi, smoker)))

\* the legacy health score (0-100)
calculateHealthScore(p, bmi, smoker) ==
  Max(10, Min(100, MathRound(healthScoreRaw(p, bmi, smoker))))

(***************************************************************************)
(* Deterministic calculations A1-A6.                                       *)
(***************************************************************************)
calcStepsCategory(steps) ==
  IF steps < 5000 THEN "sedentary_lifestyle_index"
  ELSE IF steps < 7500 THEN "low_active"
  ELSE IF steps < 10000 THEN "somewhat_active"
  ELSE IF steps < 12500 THEN "active"
  ELSE "highly_active"

\* the proxy without the factor 7: minutes per day instead of per week
mvpaProxyPerDay(steps) == MathRound(DFromRatio(steps, 100))

\* Math.round((steps / 100) * 7)
mvpaProxyOf(steps) == MathRound(DMul(DFromRatio(steps, 100), DFromInt(7)))

\* the record calcActivityGuidelines returns, given mvpaProxy
activityGuidelinesOf(steps, mvpaProxy) ==
  [dailySteps |-> steps,
   mvpaMinutesProxyPerWeek |-> mvpaProxy,
   meetsGuidelineBySteps |-> steps >= 8000,
   meetsGuidelineByProxyMinutes |-> mvpaProxy >= 150,
   overallMeetsMinimumGuideline |-> steps >= 8000 \/ mvpaProxy >= 150,
   additionalBenefitsTierReached |-> mvpaProxy >= 300 \/ steps >= 11000]

calcActivityGuidelines(steps) == activityGuidelinesOf(steps, mvpaProxyOf(steps))

calcSedentaryRisk(hours) ==
  IF hours < 6 THEN "low"
  ELSE IF hours < 8 THEN "moderate"
  ELSE IF hours < 10 THEN "high"
  ELSE "very_high"

\* calcAlcoholRisk without the escalation of riskLevel on a binge
calcAlcoholRiskNoEscalation(drinksPerWeek, sex, maxDrinks) ==
  LET isMale            == sex = Male
      heavyDrinkingFlag == drinksPerWeek >= (IF isMale THEN 15 ELSE 8)
  IN  [heavyDrinkingFlag |-> heavyDrinkingFlag,
       riskLevel |-> IF drinksPerWeek > 0
                     THEN (IF heavyDrinkingFlag THEN "high" ELSE "elevated")
                     ELSE "none",
       bingeFlag |-> maxDrinks # Undefined /\ maxDrinks >= (IF isMale THEN 5 ELSE 4)]

calcAlcoholRisk(drinksPerWeek, sex, maxDrinks) ==
  LET isMale            == sex = Male
      heavyThreshold    == IF isMale THEN 15 ELSE 8
      heavyDrinkingFlag == drinksPerWeek >= heavyThreshold
      baseLevel         == IF drinksPerWeek > 0
                           THEN (IF heavyDrinkingFlag THEN "high" ELSE "elevated")
                           ELSE "none"
      bingeThreshold    == IF isMale THEN 5 ELSE 4
      bingeFlag         == maxDrinks # Undefined /\ maxDrinks >= bingeThreshold
  IN  [heavyDrinkingFlag |-> heavyDrinkingFlag,
       riskLevel |-> IF bingeFlag /\ baseLevel # "high" THEN "high" ELSE baseLevel,
       bingeFlag |-> bingeFlag]

\* packsPerDay * yearsSmoked as the code computes it
packYearsRaw(p) ==
  DMul(DFromRatio(OrZero(p.cigarettesPerDay), 20), DFromInt(OrZero(p.yearsSmoked)))

\* packYears is held in tenths
\* the record calcSmokingRisk returns for a smoker, given packYears (tenths)
smokerRiskOf(p, packYears) ==
  [riskLevel |-> IF packYears >= 200 THEN "high" ELSE "moderate",
   packYears |-> packYears,
   lungCancerScreeningEligible |-> p.age >= 50 /\ p.age <= 80 /\ packYears >= 200]

\* calcSmokingRisk without the early return for a non-smoker
calcSmokingRiskAnySmoker(p) == smokerRiskOf(p, ToFixed1(packYearsRaw(p)))

calcSmokingRisk(p) ==
  IF ~p.smoker
  THEN [riskLevel |-> "low",
        packYears |-> 0,
        lungCancerScreeningEligible |->
             p.age >= 50 /\ p.age <= 80 /\ OrZero(p.yearsSinceQuit) <= 150
          /\ ~DLess(DMul(DFromInt(OrZero(p.yearsSmoked)),
                         DFromRatio(OrZero(p.cigarettesPerDay), 20)),
                    DFromInt(20))]
  ELSE smokerRiskOf(p, ToFixed1(packYearsRaw(p)))

\* the penalty table read one place too far
penaltiesShifted == <<0, 5, 15, 25, 35, 45>>

penalties == <<0, 0, 5, 15, 25, 35>>

\* calcDietScore without the clamp Math.max(0, Math.min(100, ...))
calcDietScoreUnclamped(quality, fastFood) ==
  LET qVal    == IF quality = Good THEN 5 ELSE IF quality = Average THEN 3
                 ELSE IF quality = Poor THEN 1 ELSE 3
      ffVal   == IF fastFood = Frequent THEN 5 ELSE IF fastFood = Weekly THEN 3
                 ELSE IF fastFood = Rarely THEN 2 ELSE IF fastFood = Never THEN 1 ELSE 3
      score   == qVal * 20 - penalties[ffVal + 1]
  IN  [score |-> score,
       level |-> IF score >= 80 THEN "low" ELSE IF score >= 60 THEN "moderate"
                 ELSE IF score >= 40 THEN "high" ELSE "very_high",
       qVal |-> qVal, ffVal |-> ffVal]

calcDietScore(quality, fastFood) ==
  LET qVal    == IF quality = Good THEN 5 ELSE IF quality = Average THEN 3
                 ELSE IF quality = Poor THEN 1 ELSE 3
      ffVal   == IF fastFood = Frequent THEN 5 ELSE IF fastFood = Weekly THEN 3
                 ELSE IF fastFood = Rarely THEN 2 ELSE IF fastFood = Never THEN 1 ELSE 3
      base    == qVal * 20
      \* penalties[ffVal] of a 0-based array
      penalty == penalties[ffVal + 1]
      score   == Max(0, Min(100, base - penalty))
  IN  [score |-> score,
       level |-> IF score >= 80 THEN "low" ELSE IF score >= 60 THEN "moderate"
                 ELSE IF score >= 40 THEN "high" ELSE "very_high",
       qVal |-> qVal, ffVal |-> ffVal]

(***************************************************************************)
(* Measured scoring helpers.                                               *)
(***************************************************************************)
\* bpBand with the diastolic range 80-89 left out of the 50 band
bpBandSystolic50(s, d) ==
  IF s >= 140 \/ d >= 90 THEN 20
  ELSE IF s >= 130 /\ s <= 139 THEN 50
  ELSE IF (s >= 120 /\ s <= 129) /\ d < 80 THEN 80
  ELSE 100

\* the band of a measured blood pressure, before the medication cap
bpBand(s, d) ==
  IF s >= 140 \/ d >= 90 THEN 20
  ELSE IF (s >= 130 /\ s <= 139) \/ (d >= 80 /\ d <= 89) THEN 50
  ELSE IF (s >= 120 /\ s <= 129) /\ d < 80 THEN 80
  ELSE 100

\* medsCap that sets the score to 80 whenever onMeds, raising lower scores
medsCapAlways(onMeds, score) == IF onMeds THEN 80 ELSE score

\* if (onMeds && score > 80) score = 80
medsCap(onMeds, score) == IF onMeds /\ score > 80 THEN 80 ELSE score

\* if ((measuredWithinMonths || 0) > 12) score = Math.max(0, score - 10)
recencyPenalty(measuredWithinMonths, score) ==
  IF OrZero(measuredWithinMonths) > 12 THEN Max(0, score - 10) ELSE score

bpMeasured(p) == p.bp.provided /\ Truthy(p.bp.systolic) /\ Truthy(p.bp.diastolic)

\* calcBPScore that looks at the reported history before the measurement
calcBPScoreHistoryFirst(p) ==
  IF "Hypertension" \in p.existingConditions
  THEN [score |-> 30, basis |-> "self_report", label |-> <<"Hypertension History">>]
  ELSE IF bpMeasured(p)
  THEN [score |-> recencyPenalty(p.bp.measuredWithinMonths,
                     medsCap(p.bp.onMeds, bpBand(p.bp.systolic, p.bp.diastolic))),
        basis |-> "measured",
        label |-> <<p.bp.systolic, "/", p.bp.diastolic, " mmHg">>]
  ELSE [score |-> 80, basis |-> "unknown", label |-> <<"No Diagnosis">>]

calcBPScore(p) ==
  IF bpMeasured(p)
  THEN [score |-> recencyPenalty(p.bp.measuredWithinMonths,
                     medsCap(p.bp.onMeds, bpBand(p.bp.systolic, p.bp.diastolic))),
        basis |-> "measured",
        label |-> <<p.bp.systolic, "/", p.bp.diastolic, " mmHg">>]
  ELSE IF "Hypertension" \in p.existingConditions
  THEN [score |-> 30, basis |-> "self_report", label |-> <<"Hypertension History">>]
  ELSE [score |-> 80, basis |-> "unknown", label |-> <<"No Diagnosis">>]

\* the double literals 38.67 and 18
D38_67 == [neg |-> FALSE, mag |-> <<11264, 8519, 4587, 10977, 38>>]
D18 == [neg |-> FALSE, mag |-> <<0, 0, 0, 0, 18>>]

\* x >= n for a double x and an integer n
DAtLeast(x, n) == ~DLess(x, DFromInt(n))

\* a lipid value in mg/dL: the entered value (tenths), times 38.67 if unit is mmol_L
lipidMgDl(tenths, unit) ==
  IF unit = "mmol_L" THEN DMul(DFromRatio(tenths, 10), D38_67) ELSE DFromRatio(tenths, 10)

ldlBand(ldl) ==
  IF DAtLeast(ldl, 190) THEN 10
  ELSE IF DAtLeast(ldl, 160) THEN 30
  ELSE IF DAtLeast(ldl, 130) THEN 50
  ELSE IF DAtLeast(ldl, 100) THEN 80
  ELSE 100

totalCholBand(tc) ==
  IF DAtLeast(tc, 240) THEN 20
  ELSE IF DAtLeast(tc, 200) THEN 60
  ELSE 100

\* lipidsBand that looks at total cholesterol first
lipidsBandTotalFirst(l) ==
  IF Truthy(l.totalChol) THEN totalCholBand(lipidMgDl(l.totalChol, l.unit))
  ELSE IF Truthy(l.ldl) THEN ldlBand(lipidMgDl(l.ldl, l.unit))
  ELSE 100

\* the band of measured lipids, before the medication cap
lipidsBand(l) ==
  IF Truthy(l.ldl) THEN ldlBand(lipidMgDl(l.ldl, l.unit))
  ELSE IF Truthy(l.totalChol) THEN totalCholBand(lipidMgDl(l.totalChol, l.unit))
  ELSE 100

lipidsLabel(l) ==
  IF Truthy(l.ldl) THEN <<"LDL: ", MathRound(lipidMgDl(l.ldl, l.unit))>>
  ELSE IF Truthy(l.totalChol) THEN <<"Total: ", MathRound(lipidMgDl(l.totalChol, l.unit))>>
  ELSE <<"">>

lipidsMeasured(p) == p.lipids.provided /\ (Truthy(p.lipids.totalChol) \/ Truthy(p.lipids.ldl))

calcLipidsScore(p) ==
  IF lipidsMeasured(p)
  THEN [score |-> recencyPenalty(p.lipids.measuredWithinMonths,
                     medsCap(p.lipids.onMeds, lipidsBand(p.lipids))),
        basis |-> "measured",
        label |-> lipidsLabel(p.lipids)]
  ELSE IF "High Cholesterol" \in p.existingConditions
  THEN [score |-> 30, basis |-> "self_report", label |-> <<"History of High Chol.">>]
  ELSE [score |-> 80, basis |-> "unknown", label |-> <<"No Diagnosis">>]

\* a1c is entered in percent (tenths); 6.5 and 5.7 are the same doubles as the
\* entered 6.5 and 5.7
a1cBand(a1c) ==
  IF a1c >= 65 THEN 20 ELSE IF a1c >= 57 THEN 60 ELSE 100

fastingMgDl(tenths, unit) ==
  IF unit = "mmol_L" THEN DMul(DFromRatio(tenths, 10), D18) ELSE DFromRatio(tenths, 10)

fastingBand(f) ==
  IF DAtLeast(f, 126) THEN 20 ELSE IF DAtLeast(f, 100) THEN 60 ELSE 100

\* glucoseBand that leaves a mmol_L fasting value unconverted
glucoseBandNoConversion(g) ==
  IF Truthy(g.a1c) THEN a1cBand(g.a1c)
  ELSE IF Truthy(g.fasting) THEN fastingBand(DFromRatio(g.fasting, 10))
  ELSE 100

\* the band of measured glucose, before the medication cap
glucoseBand(g) ==
  IF Truthy(g.a1c) THEN a1cBand(g.a1c)
  ELSE IF Truthy(g.fasting) THEN fastingBand(fastingMgDl(g.fasting, g.unit))
  ELSE 100

glucoseLabel(g) ==
  IF Truthy(g.a1c) THEN <<"A1c: ", g.a1c, "%">>
  ELSE IF Truthy(g.fasting) THEN <<"Fasting: ", MathRound(fastingMgDl(g.fasting, g.unit))>>
  ELSE <<"">>

glucoseMeasured(p) == p.glucose.provided /\ (Truthy(p.glucose.a1c) \/ Truthy(p.glucose.fasting))

\* calcGlucoseScore that looks at the reported history before the measurement
calcGlucoseScoreHistoryFirst(p) ==
  IF "Type 2 Diabetes" \in p.existingConditions
  THEN [score |-> 10, basis |-> "self_report", label |-> <<"Type 2 Diabetes">>]
  ELSE IF glucoseMeasured(p)
  THEN [score |-> recencyPenalty(p.glucose.measuredWithinMonths,
                     medsCap(p.glucose.onMeds, glucoseBand(p.glucose))),
        basis |-> "measured",
        label |-> glucoseLabel(p.glucose)]
  ELSE [score |-> 80, basis |-> "unknown", label |-> <<"No Diagnosis">>]

calcGlucoseScore(p) ==
  IF glucoseMeasured(p)
  THEN [score |-> recencyPenalty(p.glucose.measuredWithinMonths,
                     medsCap(p.glucose.onMeds, glucoseBand(p.glucose))),
        basis |-> "measured",
        label |-> glucoseLabel(p.glucose)]
  ELSE IF "Type 2 Diabetes" \in p.existingConditions
  THEN [score |-> 10, basis |-> "self_report", label |-> <<"Type 2 Diabetes">>]
  ELSE [score |-> 80, basis |-> "unknown", label |-> <<"No Diagnosis">>]

(***************************************************************************)
(* AHA Life's Essential 8.                                                 *)
(***************************************************************************)
\* paScoreOf with every threshold exclusive
paScoreExclusive(mvpa) ==
  IF mvpa > 150 THEN 100
  ELSE IF mvpa > 90 THEN 80
  ELSE IF mvpa > 60 THEN 60
  ELSE IF mvpa > 30 THEN 40
  ELSE IF mvpa > 1 THEN 20
  ELSE 0

paScoreOf(mvpa) ==
  IF mvpa >= 150 THEN 100
  ELSE IF mvpa >= 90 THEN 80
  ELSE IF mvpa >= 60 THEN 60
  ELSE IF mvpa >= 30 THEN 40
  ELSE IF mvpa >= 1 THEN 20
  ELSE 0

\* yearsSinceQuit in tenths of a year
nicotineScoreOf(p) ==
  IF p.smoker THEN 0
  ELSE IF p.yearsSinceQuit # Undefined /\ p.yearsSinceQuit > 0
       THEN (IF p.yearsSinceQuit >= 50 THEN 100
             ELSE IF p.yearsSinceQuit >= 10 THEN 75 ELSE 50)
  ELSE IF Truthy(p.yearsSmoked) /\ p.yearsSmoked > 0 /\ ~Truthy(p.yearsSinceQuit) THEN 50
  ELSE 100

\* sleepScoreOf with ten hours still counted in the 70 band
sleepScoreTenInclusive(s) ==
  IF s >= 14 /\ s <= 18 THEN 100
  ELSE IF (s >= 12 /\ s < 14) \/ (s > 18 /\ s <= 20) THEN 70
  ELSE IF (s >= 10 /\ s < 12) \/ (s > 20 /\ s < 22) THEN 40
  ELSE 0

\* sleepHours s in half hours
sleepScoreOf(s) ==
  IF s >= 14 /\ s <= 18 THEN 100
  ELSE IF (s >= 12 /\ s < 14) \/ (s > 18 /\ s < 20) THEN 70
  ELSE IF (s >= 10 /\ s < 12) \/ (s >= 20 /\ s < 22) THEN 40
  ELSE 0

\* bmi in tenths
bmiScoreOf(bmi) ==
  IF bmi < 250 THEN 100
  ELSE IF bmi < 300 THEN 70
  ELSE IF bmi < 350 THEN 40
  ELSE IF bmi < 400 THEN 20
  ELSE 0

\* components.reduce((acc, c) => acc + c.score, 0)
RECURSIVE sumScores(_)
sumScores(components) ==
  IF components = <<>> THEN 0 ELSE Head(components).score + sumScores(Tail(components))

\* the mean truncated instead of rounded
truncEighth(sum) == sum \div 8

\* Math.round(sum / 8): sum / 8 is exact in a double
roundEighth(sum) == MathRound(DFromRatio(sum, 8))

countBasis(components, bases) ==
  Cardinality({i \in 1..Len(components) : components[i].basis \in bases})

\* the eight components pushed in order, given the three vitals' results
le8ComponentsOf(p, bmi, activityInfo, dietInfo, lipids, glucose, bp) ==
  << [id |-> "diet", label |-> "Diet", score |-> dietInfo.score, basis |-> "proxy"],
     [id |-> "physical_activity", label |-> "Physical Activity",
      score |-> paScoreOf(activityInfo.mvpaMinutesProxyPerWeek), basis |-> "proxy"],
     [id |-> "nicotine", label |-> "Nicotine Exposure",
      score |-> nicotineScoreOf(p), basis |-> "self_report"],
     [id |-> "sleep", label |-> "Sleep Health",
      score |-> sleepScoreOf(p.sleepHours), basis |-> "self_report"],
     [id |-> "bmi", label |-> "Body Mass Index",
      score |-> bmiScoreOf(bmi), basis |-> "measured"],
     [id |-> "blood_lipids", label |-> "Blood Lipids",
      score |-> lipids.score, basis |-> lipids.basis],
     [id |-> "blood_glucose", label |-> "Blood Glucose",
      score |-> glucose.score, basis |-> glucose.basis],
     [id |-> "blood_pressure", label |-> "Blood Pressure",
      score |-> bp.score, basis |-> bp.basis] >>

le8Components(p, bmi, activityInfo, dietInfo) ==
  le8ComponentsOf(p, bmi, activityInfo, dietInfo,
                  calcLipidsScore(p), calcGlucoseScore(p), calcBPScore(p))

\* le8Confidence asking for three measured components
le8ConfidenceThreeMeasured(measuredVitals, measuredOrSelf) ==
  IF measuredVitals >= 3 THEN "high"
  ELSE IF measuredOrSelf >= 6 THEN "medium"
  ELSE "low"

\* le8Confidence with the self-report count tested first
le8ConfidenceSelfReportFirst(measuredVitals, measuredOrSelf) ==
  IF measuredOrSelf >= 6 THEN "medium"
  ELSE IF measuredVitals >= 2 THEN "high"
  ELSE "low"

le8Confidence(measuredVitals, measuredOrSelf) ==
  IF measuredVitals >= 2 THEN "high"
  ELSE IF measuredOrSelf >= 6 THEN "medium"
  ELSE "low"

\* the summary of the eight components
le8SummaryOf(components, measuredOrSelf, measuredVitals) ==
  [totalScore |-> roundEighth(sumScores(components)),
   components |-> components,
   dataCompleteness |-> [measuredCount |-> measuredOrSelf,
                         proxyCount |-> 8 - measuredOrSelf, total |-> 8],
   confidence |-> le8Confidence(measuredVitals, measuredOrSelf)]

le8CountsOf(components) ==
  le8SummaryOf(components, countBasis(components, {"measured", "self_report"}),
               countBasis(components, {"measured"}))

calculateLe8Summary(p, bmi, activityInfo, dietInfo) ==
  le8CountsOf(le8Components(p, bmi, activityInfo, dietInfo))

(***************************************************************************)
(* generateHealthProjection: the reply of the AI and what is made of it.   *)
(* A text is a sequence of tokens: "fence" for three backquotes,           *)
(* "fence_json" for three backquotes followed by json, the brackets, the   *)
(* digit "1", the word "null" and the blank " "; "json" stands for the     *)
(* letters left of a "fence_json" that was opened as a plain fence.        *)
(***************************************************************************)
Tokens == {"fence_json", "fence", "{", "}", "[", "]", "1", "null", " "}

Fences == {"fence_json", "fence"}

\* a return value or a thrown error of a block of code
Return(v) == [threw |-> FALSE, value |-> v]

Throw(msg) == [threw |-> TRUE, error |-> msg]

\* String.prototype.trim
RECURSIVE trim(_)
trim(t) ==
  IF t = <<>> THEN t
  ELSE IF Head(t) = " " THEN trim(Tail(t))
  ELSE IF t[Len(t)] = " " THEN trim(SubSeq(t, 1, Len(t) - 1))
  ELSE t

\* the first position after from whose token is in S, 0 if there is none
indexAfter(t, from, S) ==
  IF \E k \in (from + 1)..Len(t) : t[k] \in S
  THEN CHOOSE k \in (from + 1)..Len(t) :
         t[k] \in S /\ \A j \in (from + 1)..(k - 1) : t[j] \notin S
  ELSE 0

\* the last position whose token is in S, 0 if there is none
lastIndexOf(t, S) ==
  IF \E k \in 1..Len(t) : t[k] \in S
  THEN CHOOSE k \in 1..Len(t) : t[k] \in S /\ \A j \in (k + 1)..Len(t) : t[j] \notin S
  ELSE 0

\* group 1 of the match of fence_json, blanks, (anything, lazily), blanks,
\* fence that opens at position open; <<>> when there is no match or the
\* group is empty
fencedGroup(t, open) ==
  IF open = 0 \/ indexAfter(t, open, Fences) = 0 THEN <<>>
  ELSE trim(SubSeq(t, open + 1, indexAfter(t, open, Fences) - 1))

\* the same for the match of fence, blanks, (anything, lazily), blanks, fence
anyFenceGroup(t, open) ==
  IF open = 0 \/ indexAfter(t, open, Fences) = 0 THEN <<>>
  ELSE trim((IF t[open] = "fence_json" THEN <<"json">> ELSE <<>>)
              \o SubSeq(t, open + 1, indexAfter(t, open, Fences) - 1))

\* t.slice(first, last + 1).trim() when both brackets are found in this order
bracketSlice(t, first, last) ==
  IF first # 0 /\ last # 0 /\ last > first THEN trim(SubSeq(t, first, last)) ELSE <<>>

\* extractJson on the trimmed text t
extractJsonOf(t) ==
  IF fencedGroup(t, indexAfter(t, 0, {"fence_json"})) # <<>>
    THEN Return(fencedGroup(t, indexAfter(t, 0, {"fence_json"})))
  ELSE IF anyFenceGroup(t, indexAfter(t, 0, Fences)) # <<>>
    THEN Return(anyFenceGroup(t, indexAfter(t, 0, Fences)))
  ELSE IF bracketSlice(t, indexAfter(t, 0, {"{"}), lastIndexOf(t, {"}"})) # <<>>
    THEN Return(bracketSlice(t, indexAfter(t, 0, {"{"}), lastIndexOf(t, {"}"})))
  ELSE IF bracketSlice(t, indexAfter(t, 0, {"["}), lastIndexOf(t, {"]"})) # <<>>
    THEN Return(bracketSlice(t, indexAfter(t, 0, {"["}), lastIndexOf(t, {"]"})))
  ELSE Throw("NO_JSON_FOUND")

extractJson(text) == extractJsonOf(trim(text))

\* whether JSON.parse accepts s: a number, null, an empty object, an empty
\* array or an array of one value, blanks allowed around values
RECURSIVE jsonAccepts(_)
jsonAccepts(s) ==
  IF s = <<>> THEN FALSE
  ELSE IF Head(s) = " " \/ s[Len(s)] = " " THEN jsonAccepts(trim(s))
  ELSE IF \A i \in 1..Len(s) : s[i] = "1" THEN TRUE
  ELSE IF s = <<"null">> THEN TRUE
  ELSE IF Len(s) < 2 THEN FALSE
  ELSE IF Head(s) = "{" /\ s[Len(s)] = "}" THEN trim(SubSeq(s, 2, Len(s) - 1)) = <<>>
  ELSE IF Head(s) = "[" /\ s[Len(s)] = "]"
    THEN trim(SubSeq(s, 2, Len(s) - 1)) = <<>> \/ jsonAccepts(SubSeq(s, 2, Len(s) - 1))
  ELSE FALSE

\* the inner try/catch: JSON.parse(extractJson(rawText)), errors renamed
parseExtracted(extracted) ==
  IF extracted.threw THEN Throw("AI_RESPONSE_NO_JSON_BLOCK")
  ELSE IF ~jsonAccepts(extracted.value) THEN Throw("AI_RESPONSE_NOT_JSON")
  ELSE Return([parsed |-> extracted.value])

\* from rawText to the parsed value
parseRawText(rawText) ==
  IF rawText = <<>> THEN Throw("NO_TEXT_FROM_GEMINI")
  ELSE parseExtracted(extractJson(rawText))

\* (partsText || direct || "").trim(), "" for no reply object
getFullText(resp) ==
  IF resp.kind = "null" THEN <<>>
  ELSE trim(IF resp.partsText # <<>> THEN resp.partsText ELSE resp.text)

\* the text the current version goes on with
fullTextParsed(text) ==
  IF text = <<>> THEN Throw("No response from AI") ELSE parseRawText(text)

\* the try block of the current version from the await on
projectionBody(outcome) ==
  IF outcome.kind = "rejected" THEN Throw("generateContent rejected")
  ELSE fullTextParsed(getFullText(outcome))

\* the try block of the earlier version from the await on: response.text
projectionBodyLegacy(outcome) ==
  IF outcome.kind = "rejected" THEN Throw("generateContent rejected")
  ELSE IF outcome.kind = "null" THEN Throw("TypeError")
  ELSE fullTextParsed(outcome.text)

\* the fallback the catch block returns
fallbackResponse ==
  [riskCards |-> << [title |-> "CONNECTION ERROR", organ |-> "network",
                     probability |-> 0, probabilityLabel |-> "Error",
                     summary |-> "Could not retrieve health data. Please try again.",
                     facts |-> <<"Check your internet connection.">>,
                     sources |-> <<>>] >>,
   suggestedAction |-> "Retry Simulation",
   healthScoreCurrent |-> 0, healthScoreFuture |-> 0, lifeExpectancy |-> 0,
   predictedConditions |-> <<>>, organHighlights |-> <<>>,
   trajectory |-> <<>>, weightTrajectory |-> <<>>, bmiTrajectory |-> <<>>]

\* the promise of an async function whose try block is not caught
settleProjectionUncaught(outcome) ==
  IF outcome.threw THEN [state |-> "rejected", reason |-> outcome.error]
  ELSE [state |-> "fulfilled", value |-> outcome.value]

\* the promise generateHealthProjection returns: try { ... } catch { fallback }
settleProjection(outcome) ==
  IF outcome.threw THEN [state |-> "fulfilled", value |-> fallbackResponse]
  ELSE [state |-> "fulfilled", value |-> outcome.value]

\* the replies of the AI: every text of up to MaxTextLen tokens, as the direct
\* text or as the text of the parts, no reply object, or a rejected call
MaxTextLen == 3

Texts == UNION {[1..n -> Tokens] : n \in 0..MaxTextLen}

Reply(text, partsText) == [kind |-> "response", text |-> text, partsText |-> partsText]

AiOutcomes ==
  {[kind |-> "rejected"], [kind |-> "null"]}
    \cup {Reply(t, <<>>) : t \in Texts}
    \cup {Reply(<<"{", "}">>, t) : t \in Texts}

\* before generateContent is called, and before the promise settles
NotAsked == [kind |-> "none"]

Pending == [state |-> "pending"]

(***************************************************************************)
(* generateHealthProjection: the calculations performed in the app before  *)
(* the prompt is built.  pc is "input" until they have run.                *)
(***************************************************************************)
VARIABLES profile, pc, bmi, whr, findriscScore, cvdRiskPercent,
          currentHealthScore, diabetesProb, le8, additionalMetrics,
          response, projection, remembered,
          view, userProfile, data,
          simulationData, isSimulating, activeScenarios, currentCardIndex,
          inFlight, toggles

vars == <<profile, pc, bmi, whr, findriscScore, cvdRiskPercent,
          currentHealthScore, diabetesProb, le8, additionalMetrics,
          response, projection, remembered,
          view, userProfile, data,
          simulationData, isSimulating, activeScenarios, currentCardIndex,
          inFlight, toggles>>

\* the state of App; data is its simulationData, the data prop of Dashboard
appVars == <<view, userProfile, data>>

\* the state of Dashboard, the requests it has in flight and the number of
\* toggles so far
dashboardVars == <<simulationData, isSimulating, activeScenarios, currentCardIndex,
                   inFlight, toggles>>

\* what the calculations and the request of generateHealthProjection never touch
callerVars == <<remembered, appVars, dashboardVars>>

\* null
Null == [null |-> TRUE]

\* the results of the calculations
engineResults == <<bmi, whr, findriscScore, cvdRiskPercent, currentHealthScore,
                   diabetesProb, le8, additionalMetrics>>

\* no earlier evaluation is remembered
NotRemembered == [taken |-> FALSE]

\* the caller's state before anything has been evaluated
InitCaller ==
  /\ remembered = NotRemembered
  /\ view = "form"
  /\ userProfile = Null
  /\ data = Null
  /\ simulationData = Null
  /\ isSimulating = FALSE
  /\ activeScenarios = {}
  /\ currentCardIndex = 0
  /\ inFlight = {}
  /\ toggles = 0

\* the value of a result that has not been computed
NotComputed == [computed |-> FALSE]

additionalMetricsOf(p, activityInfo, dietInfo) ==
  [physicalActivity |-> [info |-> activityInfo,
                         stepsCategory |-> calcStepsCategory(p.dailySteps)],
   sedentary |-> [sittingHours |-> p.sittingHours,
                  riskLevel |-> calcSedentaryRisk(p.sittingHours)],
   alcohol |-> [weeklyDrinks |-> p.alcoholDrinksPerWeek,
                info |-> calcAlcoholRisk(p.alcoholDrinksPerWeek, p.gender,
                                         p.maxDrinksPerOccasion)],
   smoking |-> [info |-> calcSmokingRisk(p),
                cigarettesPerDay |-> p.cigarettesPerDay,
                yearsSmoked |-> p.yearsSmoked],
   diet |-> [score |-> dietInfo.score, level |-> dietInfo.level]]

\* the values both versions of generateHealthProjection compute from the
\* profile, given its bmi, activityInfo and dietInfo
\* calculationsOf with a FINDRISC score that adds to the one of the call before
calculationsOfAccumulating(p, b, activityInfo, dietInfo) ==
  /\ bmi' = b
  /\ whr' = calculateWHR(p.waistCm, p.hipCm)
  /\ findriscScore' = calculateFindrisc(p, b) + Max(0, findriscScore)
  /\ cvdRiskPercent' = calculateCVDRiskProxy(p, b)
  /\ diabetesProb' = diabetesProbability(findriscScore')
  /\ additionalMetrics' = additionalMetricsOf(p, activityInfo, dietInfo)

calculationsOf(p, b, activityInfo, dietInfo) ==
  /\ bmi' = b
  /\ whr' = calculateWHR(p.waistCm, p.hipCm)
  /\ findriscScore' = calculateFindrisc(p, b)
  /\ cvdRiskPercent' = calculateCVDRiskProxy(p, b)
  /\ diabetesProb' = diabetesProbability(findriscScore')
  /\ additionalMetrics' = additionalMetricsOf(p, activityInfo, dietInfo)

\* the current version adds the LE8 summary, whose total is the health score
le8CalculationsOf(p, b, activityInfo, dietInfo) ==
  /\ calculationsOf(p, b, activityInfo, dietInfo)
  /\ le8' = calculateLe8Summary(p, b, activityInfo, dietInfo)
  /\ currentHealthScore' = le8'.totalScore

\* the earlier version computes the health score with calculateHealthScore
legacyCalculationsOf(p, b, activityInfo, dietInfo) ==
  /\ calculationsOf(p, b, activityInfo, dietInfo)
  /\ currentHealthScore' = calculateHealthScore(p, b, p.smoker)

\* the current version: the health score is the LE8 total
PerformCalculations ==
  /\ pc = "input"
  /\ le8CalculationsOf(profile, calculateBMI(profile.heightCm, profile.weightKg),
                       calcActivityGuidelines(profile.dailySteps),
                       calcDietScore(profile.dietQuality, profile.fastFoodFrequency))
  /\ pc' = "calculated"
  /\ UNCHANGED <<profile, response, projection, callerVars>>

\* the earlier version: the health score is calculateHealthScore, no LE8
PerformCalculationsLegacy ==
  /\ pc = "input_legacy"
  /\ legacyCalculationsOf(profile, calculateBMI(profile.heightCm, profile.weightKg),
                          calcActivityGuidelines(profile.dailySteps),
                          calcDietScore(profile.dietQuality, profile.fastFoodFrequency))
  /\ pc' = "calculated_legacy"
  /\ UNCHANGED <<profile, le8, response, projection, callerVars>>

\* the FINDRISC probability mapping alone, applied to a given score
MapDiabetesProb ==
  /\ pc = "mapping"
  /\ diabetesProb' = diabetesProbability(findriscScore)
  /\ pc' = "mapped"
  /\ UNCHANGED <<profile, bmi, whr, findriscScore, cvdRiskPercent,
                 currentHealthScore, le8, additionalMetrics, response, projection, callerVars>>

\* ai.models.generateContent settles: the awaited call rejects or hands over a
\* reply
GenerateContent ==
  /\ pc \in {"calculated", "calculated_legacy"}
  /\ response' \in AiOutcomes
  /\ pc' = IF pc = "calculated" THEN "replied" ELSE "replied_legacy"
  /\ UNCHANGED <<profile, bmi, whr, findriscScore, cvdRiskPercent, currentHealthScore,
                 diabetesProb, le8, additionalMetrics, projection, callerVars>>

\* the current version resumes after the await and runs to its return
ResumeProjection ==
  /\ pc = "replied"
  /\ projection' = settleProjection(projectionBody(response))
  /\ pc' = "settled"
  /\ UNCHANGED <<profile, bmi, whr, findriscScore, cvdRiskPercent, currentHealthScore,
                 diabetesProb, le8, additionalMetrics, response, callerVars>>

\* the earlier version resumes after the await and runs to its return
ResumeProjectionLegacy ==
  /\ pc = "replied_legacy"
  /\ projection' = settleProjection(projectionBodyLegacy(response))
  /\ pc' = "settled_legacy"
  /\ UNCHANGED <<profile, bmi, whr, findriscScore, cvdRiskPercent, currentHealthScore,
                 diabetesProb, le8, additionalMetrics, response, callerVars>>

(***************************************************************************)
(* Input profiles.  Every specification starts from a profile the form can *)
(* hand over and applies the calculations to it.                           *)
(***************************************************************************)
DefaultProfile ==
  [age |-> 30, gender |-> Male, heightCm |-> 175, weightKg |-> 75,
   waistCm |-> 85, hipCm |-> 95,
   dailySteps |-> 5000, sittingHours |-> 8, existingConditions |-> {},
   sleepHours |-> 14, activityLevel |-> Moderate,
   smoker |-> FALSE, cigarettesPerDay |-> 0,
   yearsSmoked |-> Undefined, yearsSinceQuit |-> Undefined,
   alcoholDrinksPerWeek |-> 2, maxDrinksPerOccasion |-> Undefined,
   dietQuality |-> Average, fastFoodFrequency |-> Weekly,
   bp |-> NotProvided, lipids |-> NotProvided, glucose |-> NotProvided]

RecognizedConditions == {"Hypertension", "Type 2 Diabetes", "High Cholesterol"}

InitWith(profiles, start) ==
  /\ profile \in profiles
  /\ pc = start
  /\ bmi = Undefined
  /\ whr = Undefined
  /\ findriscScore = Undefined
  /\ cvdRiskPercent = Undefined
  /\ currentHealthScore = Undefined
  /\ diabetesProb = Undefined
  /\ le8 = NotComputed
  /\ additionalMetrics = NotComputed
  /\ response = NotAsked
  /\ projection = Pending
  /\ InitCaller

(***************************************************************************)
(* FINDRISC: profiles around every threshold of calculateFindrisc.         *)
(***************************************************************************)
MaxFindriscAge == 66

FindriscAges == {30} \cup (43..MaxFindriscAge)
FindriscWaists == {79, 80, 88, 89, 93, 94, 96, 102, 103}
FindriscBodies == {<<200, 96>>, <<200, 100>>, <<200, 104>>, <<200, 120>>, <<170, 87>>}

\* every age, body and waist threshold for each gender
FindriscBodyProfiles ==
  {[DefaultProfile EXCEPT !.age = a, !.gender = g, !.heightCm = hw[1],
                          !.weightKg = hw[2], !.waistCm = w] :
     a \in FindriscAges, g \in Gender, hw \in FindriscBodies, w \in FindriscWaists}

\* every activity level, diet quality and condition list
FindriscHabitProfiles ==
  {[DefaultProfile EXCEPT !.age = a, !.gender = g, !.heightCm = hw[1],
                          !.weightKg = hw[2], !.waistCm = w, !.activityLevel = act,
                          !.dietQuality = dq, !.existingConditions = c] :
     a \in {50, 70}, g \in Gender, hw \in {<<200, 104>>, <<170, 87>>},
     w \in {85, 96, 110}, act \in ActivityLevel, dq \in DietQuality,
     c \in {{}, {"Hypertension"}, {"Type 2 Diabetes"},
            {"Hypertension", "High Cholesterol"}}}

InitFindrisc == InitWith(FindriscBodyProfiles \cup FindriscHabitProfiles, "input")

NextFindrisc == PerformCalculations

SpecFindrisc == InitFindrisc /\ [][NextFindrisc]_vars

(***************************************************************************)
(* The FINDRISC probability mapping on its own, for any score.             *)
(***************************************************************************)
MaxFindriscInput == 60

InitProb ==
  /\ profile = DefaultProfile
  /\ pc = "mapping"
  /\ findriscScore \in 0..MaxFindriscInput
  /\ bmi = Undefined
  /\ whr = Undefined
  /\ cvdRiskPercent = Undefined
  /\ currentHealthScore = Undefined
  /\ diabetesProb = Undefined
  /\ le8 = NotComputed
  /\ additionalMetrics = NotComputed
  /\ response = NotAsked
  /\ projection = Pending
  /\ InitCaller

NextProb == MapDiabetesProb

SpecProb == InitProb /\ [][NextProb]_vars

(***************************************************************************)
(* CVD risk proxy: every combination of the multipliers over a range of    *)
(* ages.                                                                   *)
(***************************************************************************)
MaxCvdAge == 62

CvdAges == (38..MaxCvdAge) \cup {70, 90, 120}

CvdProfiles ==
  {[DefaultProfile EXCEPT !.age = a, !.gender = g, !.smoker = sm,
                          !.heightCm = hw[1], !.weightKg = hw[2],
                          !.existingConditions = c, !.activityLevel = act] :
     a \in CvdAges, g \in Gender, sm \in BOOLEAN,
     hw \in {<<200, 96>>, <<200, 104>>, <<170, 87>>},
     c \in SUBSET RecognizedConditions, act \in {Sedentary, Moderate}}

InitCVD == InitWith(CvdProfiles, "input")

NextCVD == PerformCalculations

SpecCVD == InitCVD /\ [][NextCVD]_vars

(***************************************************************************)
(* The legacy health score of the earlier version.                         *)
(***************************************************************************)
MaxLegacyAge == 100
MaxConditions == 5

ConditionLabels ==
  <<"Hypertension", "Type 2 Diabetes", "High Cholesterol", "Asthma", "Arthritis",
    "Thyroid", "Anemia", "Migraine">>

\* the first n condition labels
FirstConditions(n) == {ConditionLabels[i] : i \in 1..Min(n, Len(ConditionLabels))}

LegacyProfiles ==
  {[DefaultProfile EXCEPT !.age = a, !.smoker = sm,
                          !.heightCm = hw[1], !.weightKg = hw[2],
                          !.existingConditions = FirstConditions(n),
                          !.activityLevel = act, !.sleepHours = sl] :
     a \in {a \in 0..MaxLegacyAge : a % 5 = 0 \/ a % 10 = 3}, sm \in BOOLEAN,
     hw \in {<<200, 96>>, <<200, 104>>, <<170, 87>>},
     n \in 0..MaxConditions, act \in {Sedentary, Moderate, Active},
     sl \in {11, 12}}

InitLegacy == InitWith(LegacyProfiles, "input_legacy")

NextLegacy == PerformCalculationsLegacy

SpecLegacy == InitLegacy /\ [][NextLegacy]_vars

(***************************************************************************)
(* Life's Essential 8: measured, self-reported and unknown vitals.         *)
(***************************************************************************)
MaxSystolic == 142
MaxDiastolic == 92

Bp(s, d, onMeds, months) ==
  [provided |-> TRUE, systolic |-> s, diastolic |-> d, onMeds |-> onMeds,
   measuredWithinMonths |-> months]

Lipids(ldl, totalChol, unit, onMeds, months) ==
  [provided |-> TRUE, ldl |-> ldl, totalChol |-> totalChol, unit |-> unit,
   onMeds |-> onMeds, measuredWithinMonths |-> months]

Glucose(a1c, fasting, unit, onMeds, months) ==
  [provided |-> TRUE, a1c |-> a1c, fasting |-> fasting, unit |-> unit,
   onMeds |-> onMeds, measuredWithinMonths |-> months]

\* every reading around the bands, with and without medication, recent and old
BpReadings ==
  {Bp(s, d, m, mo) : s \in 117..MaxSystolic, d \in 77..MaxDiastolic,
                     m \in BOOLEAN, mo \in {3, 13}}
  \cup {Bp(s, d, m, mo) : s \in {0, 110, 145}, d \in {0, 70, 85, 95},
                          m \in BOOLEAN, mo \in {Undefined, 3, 12, 13}}
  \cup {NotProvided}

\* ldl and totalChol in tenths of mg/dL or of mmol/L
LipidReadings ==
  {Lipids(l, t, "mg_dL", m, mo) :
     l \in {Undefined, 0, 990, 1000, 1290, 1300, 1590, 1600, 1890, 1900, 2000},
     t \in {Undefined, 1990, 2000, 2390, 2400}, m \in BOOLEAN, mo \in {3, 13}}
  \cup {Lipids(l, t, "mmol_L", m, mo) :
     l \in {Undefined, 25, 26, 33, 34, 41, 42, 49, 50},
     t \in {Undefined, 51, 52, 62, 63}, m \in BOOLEAN, mo \in {Undefined, 13}}
  \cup {NotProvided}

\* a1c in tenths of a percent, fasting in tenths of mg/dL or of mmol/L
GlucoseReadings ==
  {Glucose(a, f, "mg_dL", m, mo) :
     a \in {Undefined, 0, 50, 56, 57, 64, 65, 70},
     f \in {Undefined, 990, 1000, 1250, 1260}, m \in BOOLEAN, mo \in {3, 13}}
  \cup {Glucose(a, f, "mmol_L", m, mo) :
     a \in {Undefined, 57}, f \in {Undefined, 55, 56, 69, 70},
     m \in BOOLEAN, mo \in {Undefined, 13}}
  \cup {NotProvided}

VitalsProfiles ==
  {[DefaultProfile EXCEPT !.bp = b, !.existingConditions = c] :
     b \in BpReadings, c \in {{}, RecognizedConditions}}
  \cup {[DefaultProfile EXCEPT !.lipids = l, !.existingConditions = c] :
     l \in LipidReadings, c \in {{}, RecognizedConditions}}
  \cup {[DefaultProfile EXCEPT !.glucose = g, !.existingConditions = c] :
     g \in GlucoseReadings, c \in {{}, RecognizedConditions}}
  \cup {[DefaultProfile EXCEPT !.existingConditions = c] :
     c \in SUBSET RecognizedConditions}

InitVitals == InitWith(VitalsProfiles, "input")

NextVitals == PerformCalculations

SpecVitals == InitVitals /\ [][NextVitals]_vars

(***************************************************************************)
(* Life's Essential 8: combinations of all eight components.               *)
(***************************************************************************)
Le8Profiles ==
  {[DefaultProfile EXCEPT !.dietQuality = dq[1], !.fastFoodFrequency = dq[2],
                          !.dailySteps = st, !.smoker = nic[1],
                          !.yearsSmoked = nic[2], !.yearsSinceQuit = nic[3],
                          !.sleepHours = sl, !.heightCm = hw[1], !.weightKg = hw[2],
                          !.lipids = l, !.glucose = g, !.bp = b,
                          !.existingConditions = c] :
     dq \in {<<Poor, Frequent>>, <<Average, Rarely>>, <<Good, Never>>},
     st \in {400, 2200},
     nic \in {<<TRUE, 10, Undefined>>, <<FALSE, 10, 20>>},
     sl \in {9, 19},
     hw \in {<<200, 96>>, <<150, 90>>},
     l \in {NotProvided, Lipids(2000, Undefined, "mg_dL", FALSE, 13),
            Lipids(Undefined, 1800, "mg_dL", TRUE, 13)},
     g \in {NotProvided, Glucose(60, Undefined, "mg_dL", FALSE, 3),
            Glucose(Undefined, 50, "mmol_L", FALSE, 3)},
     b \in {NotProvided, Bp(125, 75, FALSE, 3), Bp(150, 95, TRUE, 13)},
     c \in {{}, RecognizedConditions}}

InitLe8 == InitWith(Le8Profiles, "input")

NextLe8 == PerformCalculations

SpecLe8 == InitLe8 /\ [][NextLe8]_vars

(***************************************************************************)
(* Lifestyle inputs: sleep, nicotine and smoking history, steps, alcohol   *)
(* and diet, each varied on its own around its thresholds.                 *)
(***************************************************************************)
MaxSleepHalfHours == 26
MaxSteps == 2200
MaxCigarettes == 21
MaxYearsSmoked == 21
MaxDrinksPerWeek == 16
MaxDrinksPerOccasion == 6

SleepProfiles == {[DefaultProfile EXCEPT !.sleepHours = s] : s \in 0..MaxSleepHalfHours}

\* yearsSinceQuit in tenths of a year
SmokingProfiles ==
  {[DefaultProfile EXCEPT !.age = a, !.smoker = sm, !.cigarettesPerDay = c,
                          !.yearsSmoked = y, !.yearsSinceQuit = q] :
     a \in {49, 50, 80, 81}, sm \in BOOLEAN,
     c \in {Undefined, 0, 3, 10, 16} \cup (19..MaxCigarettes),
     y \in {Undefined, 0, 1, 25, 40} \cup (19..MaxYearsSmoked),
     q \in {Undefined, 0, 5, 10, 40, 50, 150, 160}}

StepCounts ==
  (0..MaxSteps) \cup {3000, 4278, 4279, 4999, 5000, 7999, 8000, 10999, 11000, 12000, 20000}

StepsProfiles == {[DefaultProfile EXCEPT !.dailySteps = s] : s \in StepCounts}

AlcoholProfiles ==
  {[DefaultProfile EXCEPT !.gender = g, !.alcoholDrinksPerWeek = d,
                          !.maxDrinksPerOccasion = m] :
     g \in Gender, d \in 0..MaxDrinksPerWeek,
     m \in {Undefined} \cup (0..MaxDrinksPerOccasion)}

DietProfiles ==
  {[DefaultProfile EXCEPT !.dietQuality = q, !.fastFoodFrequency = f] :
     q \in DietQuality, f \in FastFoodFrequency}

InitHabits ==
  InitWith(SleepProfiles \cup SmokingProfiles \cup StepsProfiles \cup AlcoholProfiles
             \cup DietProfiles, "input")

NextHabits == PerformCalculations

SpecHabits == InitHabits /\ [][NextHabits]_vars

\* the specification of the current version over every profile above
Init ==
  InitWith(FindriscBodyProfiles \cup FindriscHabitProfiles \cup CvdProfiles
             \cup VitalsProfiles \cup Le8Profiles \cup AlcoholProfiles, "input")

Next == PerformCalculations

Spec == Init /\ [][Next]_vars

(***************************************************************************)
(* generateHealthProjection from the calculations to the settled promise,  *)
(* in both versions.                                                       *)
(***************************************************************************)
InitProjection ==
  \/ InitWith({DefaultProfile}, "input")
  \/ InitWith({DefaultProfile}, "input_legacy")

NextProjection ==
  \/ PerformCalculations
  \/ PerformCalculationsLegacy
  \/ GenerateContent
  \/ ResumeProjection
  \/ ResumeProjectionLegacy

SpecProjection == InitProjection /\ [][NextProjection]_vars

(***************************************************************************)
(* Re-scoring: the Dashboard calls generateHealthProjection again with the *)
(* profile changed by the active what-if scenarios.  remembered keeps the  *)
(* profile and the results of one earlier evaluation.                      *)
(***************************************************************************)
Scenarios == {"Quit Smoking", "Exercise", "Diet"}

\* { ...userProfile, ...combinedModifications } for the scenarios in S
applyScenarios(p, S) ==
  [p EXCEPT !.smoker = IF "Quit Smoking" \in S THEN FALSE ELSE @,
            !.cigarettesPerDay = IF "Quit Smoking" \in S THEN 0 ELSE @,
            !.activityLevel = IF "Exercise" \in S THEN Active ELSE @,
            !.fastFoodFrequency = IF "Diet" \in S THEN Never ELSE @,
            !.dietQuality = IF "Diet" \in S THEN Good ELSE @]

\* two users of the Dashboard
DashboardProfiles ==
  {[DefaultProfile EXCEPT !.smoker = TRUE, !.cigarettesPerDay = 20, !.yearsSmoked = 25,
                          !.activityLevel = Sedentary, !.dietQuality = Poor,
                          !.fastFoodFrequency = Frequent, !.age = 55],
   [DefaultProfile EXCEPT !.gender = Female, !.activityLevel = Light,
                          !.existingConditions = {"Hypertension"}, !.age = 47]}

WhatIfProfiles == {applyScenarios(p, S) : p \in DashboardProfiles, S \in SUBSET Scenarios}

\* the caller keeps or forgets the results at hand and asks for the evaluation
\* of another profile
Reevaluate ==
  /\ pc = "calculated"
  /\ profile' \in WhatIfProfiles
  /\ pc' = "input"
  /\ \E keep \in BOOLEAN :
       remembered' =
         IF keep
         THEN [taken |-> TRUE, profile |-> profile, results |-> engineResults,
               between |-> profile' # profile]
         ELSE IF remembered.taken /\ profile' # remembered.profile
         THEN [remembered EXCEPT !.between = TRUE]
         ELSE remembered
  /\ UNCHANGED <<engineResults, response, projection, appVars, dashboardVars>>

InitReevaluate == InitWith(WhatIfProfiles, "input")

NextReevaluate ==
  \/ PerformCalculations
  \/ Reevaluate

SpecReevaluate == InitReevaluate /\ [][NextReevaluate]_vars

(***************************************************************************)
(* Dashboard: the what-if toggles, the results that arrive for them and    *)
(* the carousel of risk cards.  A response is known by the scenarios it    *)
(* was computed for, the toggle that asked for it and the number of its    *)
(* risk cards.                                                             *)
(***************************************************************************)
MaxCards == 3
MaxToggles == 4

Result(scenarios, cards, toggle) ==
  [computedFor |-> scenarios, riskCards |-> cards, toggle |-> toggle]

\* simulationData || data
activeData == IF simulationData # Null THEN simulationData ELSE data

\* the Quit Smoking button is rendered for a smoker only
scenarioButtons(p) == IF p.smoker THEN Scenarios ELSE Scenarios \ {"Quit Smoking"}

\* the scenarios after a click on the button of scenarioName
newScenariosOf(scenarioName) ==
  IF scenarioName \in activeScenarios
  THEN activeScenarios \ {scenarioName}
  ELSE activeScenarios \cup {scenarioName}

\* toggleSimulation up to its return or its await
toggleSimulationTo(newScenarios) ==
  /\ activeScenarios' = newScenarios
  /\ toggles' = toggles + 1
  /\ IF newScenarios = {}
     THEN /\ simulationData' = Null
          /\ isSimulating' = FALSE
          /\ inFlight' = inFlight
     ELSE /\ isSimulating' = TRUE
          /\ inFlight' = inFlight \cup {[toggle |-> toggles + 1, scenarios |-> newScenarios]}
          /\ simulationData' = simulationData

toggleSimulation(scenarioName) ==
  /\ view = "dashboard"
  /\ toggles < MaxToggles
  /\ scenarioName \in scenarioButtons(userProfile)
  /\ toggleSimulationTo(newScenariosOf(scenarioName))
  /\ UNCHANGED <<currentCardIndex, appVars, remembered, profile, pc, engineResults,
                 response, projection>>

ToggleSimulation == \E scenarioName \in Scenarios : toggleSimulation(scenarioName)

\* generateHealthProjection of a toggle resolves and toggleSimulation runs on
\* to its end
ResultArrives ==
  /\ view = "dashboard"
  /\ \E r \in inFlight, cards \in 1..MaxCards :
       /\ simulationData' = Result(r.scenarios, cards, r.toggle)
       /\ inFlight' = inFlight \ {r}
  /\ currentCardIndex' = 0
  /\ isSimulating' = FALSE
  /\ UNCHANGED <<activeScenarios, toggles, appVars, remembered, profile, pc,
                 engineResults, response, projection>>

\* the left button of the carousel
PreviousCard ==
  /\ view = "dashboard"
  /\ currentCardIndex > 0
  /\ currentCardIndex' = currentCardIndex - 1
  /\ UNCHANGED <<simulationData, isSimulating, activeScenarios, inFlight, toggles,
                 appVars, remembered, profile, pc, engineResults, response, projection>>

\* the right button of the carousel
NextCard ==
  /\ view = "dashboard"
  /\ currentCardIndex < activeData.riskCards - 1
  /\ currentCardIndex' = currentCardIndex + 1
  /\ UNCHANGED <<simulationData, isSimulating, activeScenarios, inFlight, toggles,
                 appVars, remembered, profile, pc, engineResults, response, projection>>

\* the Dashboard as App mounts it, for a response of any number of cards
InitDashboard ==
  /\ profile = DefaultProfile
  /\ pc = "idle"
  /\ bmi = Undefined
  /\ whr = Undefined
  /\ findriscScore = Undefined
  /\ cvdRiskPercent = Undefined
  /\ currentHealthScore = Undefined
  /\ diabetesProb = Undefined
  /\ le8 = NotComputed
  /\ additionalMetrics = NotComputed
  /\ response = NotAsked
  /\ projection = Pending
  /\ remembered = NotRemembered
  /\ view = "dashboard"
  /\ userProfile \in DashboardProfiles
  /\ data \in {Result({}, cards, 0) : cards \in 1..MaxCards}
  /\ simulationData = Null
  /\ isSimulating = FALSE
  /\ activeScenarios = {}
  /\ currentCardIndex = 0
  /\ inFlight = {}
  /\ toggles = 0

NextDashboard ==
  \/ ToggleSimulation
  \/ ResultArrives
  \/ PreviousCard
  \/ NextCard

SpecDashboard == InitDashboard /\ [][NextDashboard]_vars

(***************************************************************************)
(* App: the views and the handlers that move between them.  pc is "idle"   *)
(* (the current App) or "idle_legacy" (the earlier App) while no           *)
(* projection is asked for.                                                *)
(***************************************************************************)
\* the JavaScript value that JSON.parse made of the reply: null for null
resolvedValue(v) ==
  IF "parsed" \in DOMAIN v /\ v.parsed = <<"null">> THEN Null ELSE v

\* the current App: StepForm hands over the profile
HandleFormComplete ==
  /\ view = "form" /\ pc = "idle"
  /\ userProfile' \in DashboardProfiles
  /\ view' = "baseline"
  /\ UNCHANGED <<data, dashboardVars, remembered, profile, pc, engineResults,
                 response, projection>>

\* the current App: BaselineAnalysis proceeds, up to the await
HandleStartSimulation ==
  /\ view = "baseline" /\ pc = "idle"
  /\ userProfile # Null
  /\ view' = "loading"
  /\ profile' = userProfile
  /\ pc' = "input"
  /\ UNCHANGED <<userProfile, data, dashboardVars, remembered, engineResults,
                 response, projection>>

\* the earlier App: StepForm hands over the profile, up to the await
HandleFormCompleteLegacy ==
  /\ view = "form" /\ pc = "idle_legacy"
  /\ userProfile' \in DashboardProfiles
  /\ view' = "loading"
  /\ profile' = userProfile'
  /\ pc' = "input_legacy"
  /\ UNCHANGED <<data, dashboardVars, remembered, engineResults, response, projection>>

\* what either App does after the await, back to errorView on a rejection
afterAwait(errorView) ==
  /\ IF projection.state = "fulfilled"
     THEN data' = resolvedValue(projection.value) /\ view' = "dashboard"
     ELSE data' = data /\ view' = errorView
  /\ response' = NotAsked
  /\ projection' = Pending
  /\ UNCHANGED <<userProfile, dashboardVars, remembered, profile, engineResults>>

\* the current App after the await
StartSimulationResumes ==
  /\ pc = "settled"
  /\ afterAwait("baseline")
  /\ pc' = "idle"

\* the earlier App after the await
FormCompleteResumes ==
  /\ pc = "settled_legacy"
  /\ afterAwait("form")
  /\ pc' = "idle_legacy"

\* onReset of the Dashboard, which is rendered for a truthy simulationData
HandleReset ==
  /\ view = "dashboard" /\ data # Null /\ userProfile # Null
  /\ view' = "form"
  /\ data' = Null
  /\ UNCHANGED <<userProfile, dashboardVars, remembered, profile, pc, engineResults,
                 response, projection>>

InitApp ==
  \/ InitWith({DefaultProfile}, "idle")
  \/ InitWith({DefaultProfile}, "idle_legacy")

NextApp ==
  \/ HandleFormComplete
  \/ HandleStartSimulation
  \/ HandleFormCompleteLegacy
  \/ PerformCalculations
  \/ PerformCalculationsLegacy
  \/ GenerateContent
  \/ ResumeProjection
  \/ ResumeProjectionLegacy
  \/ StartSimulationResumes
  \/ FormCompleteResumes
  \/ HandleReset

SpecApp == InitApp /\ [][NextApp]_vars

\* the event loop runs generateHealthProjection and the handler that awaits
\* it, and the request to the AI settles: weak fairness of every step.  The
\* calculations are enabled exactly while pc is "input" or "input_legacy" and
\* leave that position, so their weak fairness is that pc is not there for ever.
CalculationsRun == []<>(pc \notin {"input", "input_legacy"})

SpecAppLive ==
  /\ SpecApp
  /\ CalculationsRun
  /\ WF_vars(GenerateContent)
  /\ WF_vars(ResumeProjection) /\ WF_vars(ResumeProjectionLegacy)
  /\ WF_vars(StartSimulationResumes) /\ WF_vars(FormCompleteResumes)

(***************************************************************************)
(* Properties.  Scores are read off the state the calculations leave.      *)
(***************************************************************************)
Calculated == pc = "calculated"

Score(i) == le8.components[i].score
Basis(i) == le8.components[i].basis

Le8Sum == Score(1) + Score(2) + Score(3) + Score(4) + Score(5) + Score(6) + Score(7) + Score(8)

Le8Ids ==
  <<"diet", "physical_activity", "nicotine", "sleep", "bmi", "blood_lipids",
    "blood_glucose", "blood_pressure">>

\* C1: the LE8 totalScore is round(sum of the component scores / 8), halves
\* rounding up, and the component list has exactly the 8 ids diet,
\* physical_activity, nicotine, sleep, bmi, blood_lipids, blood_glucose and
\* blood_pressure, each once.
C1_TotalIsRoundedMean ==
  Calculated =>
    /\ Len(le8.components) = 8
    /\ \A i \in 1..8 : le8.components[i].id = Le8Ids[i]
    /\ \A id \in {Le8Ids[i] : i \in 1..8} :
         Cardinality({i \in 1..Len(le8.components) : le8.components[i].id = id}) = 1
    /\ 8 * le8.totalScore <= Le8Sum + 4
    /\ Le8Sum + 4 < 8 * le8.totalScore + 8

\* a sum whose mean has a fraction of a half or more, so that rounding and
\* truncating differ
C1_Witness ==
  /\ Calculated
  /\ Le8Sum % 8 >= 4
  /\ 8 * le8.totalScore > Le8Sum

\* C2: each of the 8 LE8 component scores and the LE8 totalScore lie in
\* [0, 100], for every combination of enum values, measured, self-reported and
\* unknown vitals, onMeds and recency.
C2_ScoresInRange ==
  Calculated =>
    /\ \A i \in 1..Len(le8.components) : Score(i) >= 0 /\ Score(i) <= 100
    /\ le8.totalScore >= 0 /\ le8.totalScore <= 100

\* Poor diet with Frequent fast food (20 - 35, clamped to 0) next to an old
\* measurement in the lowest lipid band (10 - 10) and a component at 100
C2_Witness ==
  /\ Calculated
  /\ profile.dietQuality = Poor /\ profile.fastFoodFrequency = Frequent
  /\ Score(1) = 0
  /\ Basis(6) = "measured" /\ Score(6) = 0
  /\ \E i \in 1..8 : Score(i) = 100

\* what the spec calls a provided measurement
BpGiven == profile.bp.provided /\ profile.bp.systolic > 0 /\ profile.bp.diastolic > 0
LipidsGiven ==
  profile.lipids.provided /\ (profile.lipids.ldl > 0 \/ profile.lipids.totalChol > 0)
GlucoseGiven ==
  profile.glucose.provided /\ (profile.glucose.a1c > 0 \/ profile.glucose.fasting > 0)

\* max(0, c - d), c = min(r, 80) if onMeds else r, d = 10 if months > 12 else 0
CappedAndAged(r, onMeds, months) ==
  LET c == IF onMeds THEN (IF r < 80 THEN r ELSE 80) ELSE r
      d == IF months > 12 THEN 10 ELSE 0
  IN  IF c - d > 0 THEN c - d ELSE 0

\* C3: a measured blood-pressure, lipids or glucose component with raw band
\* score r scores max(0, c - d), c = min(r, 80) if onMeds else r, d = 10 if
\* measuredWithinMonths > 12 else 0; BP 145/85 on medication measured within 3
\* months scores 20, and LDL 200 mg/dL on medication scores 10.
C3_MeasuredScore ==
  Calculated =>
    /\ BpGiven =>
         Score(8) = CappedAndAged(bpBand(profile.bp.systolic, profile.bp.diastolic),
                                  profile.bp.onMeds, profile.bp.measuredWithinMonths)
    /\ LipidsGiven =>
         Score(6) = CappedAndAged(lipidsBand(profile.lipids), profile.lipids.onMeds,
                                  profile.lipids.measuredWithinMonths)
    /\ GlucoseGiven =>
         Score(7) = CappedAndAged(glucoseBand(profile.glucose), profile.glucose.onMeds,
                                  profile.glucose.measuredWithinMonths)
    /\ profile.bp = Bp(145, 85, TRUE, 3) => Score(8) = 20
    /\ (/\ profile.lipids.provided
        /\ profile.lipids.ldl = 2000 /\ profile.lipids.unit = "mg_dL"
        /\ profile.lipids.onMeds /\ profile.lipids.measuredWithinMonths <= 12)
         => Score(6) = 10

\* LDL 200 mg/dL on medication, measured recently: the cap leaves the 10 alone
C3_Witness ==
  /\ Calculated
  /\ profile.lipids.provided
  /\ profile.lipids.ldl = 2000 /\ profile.lipids.unit = "mg_dL"
  /\ profile.lipids.onMeds /\ profile.lipids.measuredWithinMonths = 3
  /\ Score(6) = 10

\* C4: blood pressure, lipids and glucose each follow three tiers: a provided
\* measurement is scored from the clinical bands with basis measured; else the
\* matching condition (Hypertension, High Cholesterol, Type 2 Diabetes) in
\* existingConditions gives the fixed score 30, 30 and 10 with basis
\* self_report; else the score is 80 with basis unknown.  Exactly one tier
\* applies.
C4_ThreeTiers ==
  Calculated =>
    /\ IF BpGiven
       THEN /\ Basis(8) = "measured"
            /\ Score(8) = CappedAndAged(bpBand(profile.bp.systolic, profile.bp.diastolic),
                                        profile.bp.onMeds, profile.bp.measuredWithinMonths)
       ELSE IF "Hypertension" \in profile.existingConditions
       THEN Basis(8) = "self_report" /\ Score(8) = 30
       ELSE Basis(8) = "unknown" /\ Score(8) = 80
    /\ IF LipidsGiven
       THEN /\ Basis(6) = "measured"
            /\ Score(6) = CappedAndAged(lipidsBand(profile.lipids), profile.lipids.onMeds,
                                        profile.lipids.measuredWithinMonths)
       ELSE IF "High Cholesterol" \in profile.existingConditions
       THEN Basis(6) = "self_report" /\ Score(6) = 30
       ELSE Basis(6) = "unknown" /\ Score(6) = 80
    /\ IF GlucoseGiven
       THEN /\ Basis(7) = "measured"
            /\ Score(7) = CappedAndAged(glucoseBand(profile.glucose), profile.glucose.onMeds,
                                        profile.glucose.measuredWithinMonths)
       ELSE IF "Type 2 Diabetes" \in profile.existingConditions
       THEN Basis(7) = "self_report" /\ Score(7) = 10
       ELSE Basis(7) = "unknown" /\ Score(7) = 80

\* a measured blood pressure takes precedence over the reported Hypertension,
\* while lipids and glucose fall back to the reported conditions
C4_Witness ==
  /\ Calculated
  /\ BpGiven /\ "Hypertension" \in profile.existingConditions
  /\ Basis(8) = "measured" /\ Score(8) = 100
  /\ Basis(6) = "self_report" /\ Score(6) = 30
  /\ Basis(7) = "self_report" /\ Score(7) = 10

C5_Profile ==
  /\ profile.age = 50
  /\ bmi = 260
  /\ profile.gender = Male
  /\ profile.waistCm = 96
  /\ profile.activityLevel = Moderate
  /\ profile.dietQuality = Average
  /\ "Hypertension" \notin profile.existingConditions

\* C5 as stated: for age 50, BMI 26, Male, waist 96 cm, Moderate activity,
\* Average diet and no Hypertension, calculateFindrisc returns 7 and the
\* diabetes probability derived from it is 4%.
C5_AsStated == (Calculated /\ C5_Profile) => (findriscScore = 7 /\ diabetesProb = 4)

\* C5 (amended): for that profile calculateFindrisc returns 6, the age term of
\* 45-54 being 2 (2 + 1 + 3), and the diabetes probability derived from it is 1%.
C5_Example == (Calculated /\ C5_Profile) => (findriscScore = 6 /\ diabetesProb = 1)

C5_Witness == Calculated /\ C5_Profile /\ findriscScore = 6 /\ diabetesProb = 1

C6_Age(a) == IF a < 45 THEN 0 ELSE IF a <= 54 THEN 2 ELSE IF a <= 64 THEN 3 ELSE 4
C6_Bmi(b) == IF b < 250 THEN 0 ELSE IF b <= 300 THEN 1 ELSE 3
C6_MaleWaist(w) == IF w >= 94 /\ w <= 102 THEN 3 ELSE IF w > 102 THEN 4 ELSE 0
C6_FemaleWaist(w) == IF w >= 80 /\ w <= 88 THEN 3 ELSE IF w > 88 THEN 4 ELSE 0
C6_Rest ==
  C6_Age(profile.age) + C6_Bmi(bmi)
    + (IF profile.activityLevel \in {Sedentary, Light} THEN 2 ELSE 0)
    + (IF profile.dietQuality = Poor THEN 1 ELSE 0)
    + (IF "Hypertension" \in profile.existingConditions THEN 2 ELSE 0)

\* C6: calculateFindrisc is the sum of six terms: age 0 (<45), 2 (45-54),
\* 3 (55-64), 4 (>64); BMI 0 (<25), 1 (25 to 30 inclusive), 3 (>30); waist for
\* males 3 (94-102), 4 (>102), for females 3 (80-88), 4 (>88), else 0; +2 if
\* Sedentary or Light; +1 if diet is Poor; +2 if Hypertension is listed.  The
\* sum never exceeds 26.  (For a gender that is neither Male nor Female the
\* waist term is one of 0, 3 and 4.)
C6_FindriscTerms ==
  Calculated =>
    /\ profile.gender = Male => findriscScore = C6_Rest + C6_MaleWaist(profile.waistCm)
    /\ profile.gender = Female => findriscScore = C6_Rest + C6_FemaleWaist(profile.waistCm)
    /\ findriscScore - C6_Rest \in {0, 3, 4}
    /\ findriscScore <= 26

\* BMI exactly 30.0 counts 1 and age 64 counts 3: a woman of 64 with waist 88
C6_Witness ==
  /\ Calculated
  /\ profile.age = 64 /\ bmi = 300 /\ profile.gender = Female /\ profile.waistCm = 88
  /\ profile.activityLevel = Moderate /\ profile.dietQuality = Average
  /\ profile.existingConditions = {}
  /\ findriscScore = 7

\* the five bands of the probability mapping as the spec lists them
C7_InBand(k, s) ==
  IF k = 1 THEN 0 <= s /\ s <= 6
  ELSE IF k = 2 THEN 7 <= s /\ s <= 11
  ELSE IF k = 3 THEN 12 <= s /\ s <= 14
  ELSE IF k = 4 THEN 15 <= s /\ s <= 20
  ELSE s > 20

C7_Values == <<1, 4, 17, 33, 50>>

\* C7: for every FINDRISC score s >= 0 the diabetes probability is 1 for 0-6,
\* 4 for 7-11, 17 for 12-14, 33 for 15-20 and 50 above 20; the bands cover
\* every score, do not overlap, and the probability lies in 0..99.
C7_ProbabilityBands ==
  pc = "mapped" =>
    /\ Cardinality({k \in 1..5 : C7_InBand(k, findriscScore)}) = 1
    /\ \A k \in 1..5 : C7_InBand(k, findriscScore) => diabetesProb = C7_Values[k]
    /\ diabetesProb >= 0 /\ diabetesProb <= 99

\* the last score of the 33% band
C7_Witness == pc = "mapped" /\ findriscScore = 20 /\ diabetesProb = 33

\* B x M as an exact fraction of tenths: B in tenths, each multiplier in lowest
\* terms
C8_ExactNum ==
  (IF profile.age > 40 THEN 10 + 2 * (profile.age - 40) ELSE 10)
    * (IF profile.gender = Male THEN 13 ELSE 1)
    * (IF profile.smoker THEN 2 ELSE 1)
    * (IF bmi > 300 THEN 3 ELSE IF bmi > 250 THEN 6 ELSE 1)
    * (IF "Hypertension" \in profile.existingConditions THEN 3 ELSE 1)
    * (IF "Type 2 Diabetes" \in profile.existingConditions THEN 2 ELSE 1)
    * (IF "High Cholesterol" \in profile.existingConditions THEN 13 ELSE 1)
    * (IF profile.activityLevel = Sedentary THEN 6 ELSE 1)

C8_ExactDen ==
    (IF profile.gender = Male THEN 10 ELSE 1)
    * (IF bmi > 300 THEN 2 ELSE IF bmi > 250 THEN 5 ELSE 1)
    * (IF "Hypertension" \in profile.existingConditions THEN 2 ELSE 1)
    * (IF "High Cholesterol" \in profile.existingConditions THEN 10 ELSE 1)
    * (IF profile.activityLevel = Sedentary THEN 5 ELSE 1)

\* min(99, B x M rounded to one decimal, halves up), in tenths
C8_ExactTenths ==
  LET r == (2 * C8_ExactNum + C8_ExactDen) \div (2 * C8_ExactDen)
  IN  IF r < 990 THEN r ELSE 990

\* one more multiplier applied, in every way, to each partial product of S; a
\* partial product is the double x and the multipliers still to apply (left,
\* the number of times each is still due)
C8_ApplyOneMore(S) ==
  UNION {{[left |-> [st.left EXCEPT ![m] = @ - 1], x |-> DMul(st.x, m)] :
            m \in {v \in DOMAIN st.left : st.left[v] > 0}} : st \in S}

RECURSIVE C8_ApplyAll(_, _)
C8_ApplyAll(S, n) == IF n = 0 THEN S ELSE C8_ApplyAll(C8_ApplyOneMore(S), n - 1)

\* the results of applying the multipliers of the profile in every order
C8_OrderResults ==
  LET ms   == cvdMultipliers(profile, bmi)
      due  == [v \in {ms[i] : i \in 1..Len(ms)} |->
                 Cardinality({i \in 1..Len(ms) : ms[i] = v})]
      done == C8_ApplyAll({[left |-> due, x |-> cvdBase(profile)]}, Len(ms))
  IN  {cvdFinish(st.x) : st \in done}

C8_Abs(n) == IF n < 0 THEN -n ELSE n

\* C8 as stated: calculateCVDRiskProxy returns min(99, round-to-1-decimal(B x M)),
\* B = 1.0 + 0.2 x (age - 40) if age > 40 else 1.0, M the product of the
\* applicable multipliers; the result is at most 99 and at least 1.0 and is the
\* same for every order in which the multipliers are applied.
C8_AsStated ==
  Calculated =>
    /\ cvdRiskPercent >= 10 /\ cvdRiskPercent <= 990
    /\ cvdRiskPercent = C8_ExactTenths
    /\ C8_OrderResults = {cvdRiskPercent}

\* C8 (amended): calculateCVDRiskProxy returns min(99, toFixed(1)) of the
\* double obtained by multiplying B by the applicable multipliers in the order
\* Male, smoker, BMI, Hypertension, Type 2 Diabetes, High Cholesterol,
\* Sedentary; the result is at most 99, at least 1.0 and within 0.1 of
\* min(99, B x M rounded to one decimal); applying the multipliers in another
\* order changes it by at most 0.1.
C8_CvdRiskProxy ==
  Calculated =>
    /\ cvdRiskPercent >= 10 /\ cvdRiskPercent <= 990
    /\ C8_Abs(cvdRiskPercent - C8_ExactTenths) <= 1
    /\ LET results == C8_OrderResults
       IN  /\ cvdRiskPercent \in results
           /\ \A r \in results : C8_Abs(r - cvdRiskPercent) <= 1

\* age 70, Male, Hypertension: 7.0 x 1.3 x 1.5 is 13.6 in the order of the code
\* and 13.7 with the two multipliers swapped, the value of 13.65 rounded up
C8_Witness ==
  /\ Calculated
  /\ profile.age = 70 /\ profile.gender = Male /\ ~profile.smoker /\ bmi <= 250
  /\ profile.existingConditions = {"Hypertension"}
  /\ profile.activityLevel = Moderate
  /\ cvdRiskPercent = 136
  /\ C8_ExactTenths = 137
  /\ C8_OrderResults = {136, 137}

\* ten times the unrounded legacy score
C9_Tenths ==
  1000 - 3 * (profile.age - 20)
    - (IF bmi > 300 THEN 150 ELSE IF bmi > 250 THEN 50 ELSE 0)
    - (IF profile.smoker THEN 200 ELSE 0)
    - (IF profile.activityLevel = Sedentary THEN 100 ELSE 0)
    + (IF profile.activityLevel = Active THEN 50 ELSE 0)
    - 100 * Cardinality(profile.existingConditions)
    - (IF profile.sleepHours < 12 THEN 50 ELSE 0)

\* rounded to the nearest integer, halves up
C9_Rounded == (C9_Tenths + 5) \div 10

\* C9: calculateHealthScore is clamp(round(100 - 0.3 x (age - 20) - (15 if
\* BMI>30 else 5 if BMI>25) - (20 if smoker) - (10 if Sedentary) + (5 if Active)
\* - 10 x count(existingConditions) - (5 if sleepHours<6)), 10, 100), an integer
\* in [10, 100] for any age and any number of conditions.
C9_LegacyHealthScore ==
  pc = "calculated_legacy" =>
    /\ currentHealthScore =
         (IF C9_Rounded < 10 THEN 10 ELSE IF C9_Rounded > 100 THEN 100 ELSE C9_Rounded)
    /\ currentHealthScore \in 10..100

\* so many deductions that the unclamped score is negative
C9_Witness ==
  /\ pc = "calculated_legacy"
  /\ Cardinality(profile.existingConditions) = 5
  /\ C9_Rounded < 0
  /\ currentHealthScore = 10

C10_Case ==
  Calculated /\ BpGiven /\ ~profile.bp.onMeds /\ profile.bp.measuredWithinMonths <= 12

C10_Systolic(s) == IF s >= 140 THEN 20 ELSE IF s >= 130 THEN 50 ELSE IF s >= 120 THEN 80 ELSE 100
C10_Diastolic(d) == IF d >= 90 THEN 20 ELSE IF d >= 80 THEN 50 ELSE 100

\* the four bands as the spec lists them, each with the value it gives
C10_Bands(s, d) ==
  {b \in {20, 50, 80, 100} :
     IF b = 20 THEN s >= 140 \/ d >= 90
     ELSE IF b = 50
     THEN ~(s >= 140 \/ d >= 90) /\ ((s >= 130 /\ s <= 139) \/ (d >= 80 /\ d <= 89))
     ELSE IF b = 80 THEN (s >= 120 /\ s <= 129) /\ d < 80
     ELSE s < 120 /\ d < 80}

\* C10: a measured blood pressure (s, d), no medication, measured within 12
\* months, scores 20 if s>=140 or d>=90; else 50 if s is 130-139 or d is 80-89;
\* else 80 if s is 120-129 and d<80; else 100 (s<120 and d<80).  The worse of
\* the two readings governs and every pair falls in exactly one band.
C10_BpBands ==
  C10_Case =>
    LET s == profile.bp.systolic
        d == profile.bp.diastolic
    IN  /\ C10_Bands(s, d) = {Score(8)}
        /\ Score(8) = (IF C10_Systolic(s) < C10_Diastolic(d)
                       THEN C10_Systolic(s) ELSE C10_Diastolic(d))

\* systolic 125 alone would score 80; diastolic 85 brings the pair to 50
C10_Witness ==
  /\ C10_Case
  /\ profile.bp.systolic = 125 /\ profile.bp.diastolic = 85
  /\ Score(8) = 50

\* v (tenths of the entered unit) is at least n mg/dL, a mmol_L value being
\* multiplied by factor / 100 first; exact integer arithmetic
AtLeastMgDl(v, unit, factor, n) ==
  IF unit = "mmol_L" THEN v * factor >= n * 1000 ELSE v >= n * 10

C11_LdlBand(v, unit) ==
  IF AtLeastMgDl(v, unit, 3867, 190) THEN 10
  ELSE IF AtLeastMgDl(v, unit, 3867, 160) THEN 30
  ELSE IF AtLeastMgDl(v, unit, 3867, 130) THEN 50
  ELSE IF AtLeastMgDl(v, unit, 3867, 100) THEN 80
  ELSE 100

C11_TotalBand(v, unit) ==
  IF AtLeastMgDl(v, unit, 3867, 240) THEN 20
  ELSE IF AtLeastMgDl(v, unit, 3867, 200) THEN 60
  ELSE 100

C11_Band ==
  IF profile.lipids.ldl > 0 THEN C11_LdlBand(profile.lipids.ldl, profile.lipids.unit)
  ELSE C11_TotalBand(profile.lipids.totalChol, profile.lipids.unit)

\* C11: measured lipids are banded on LDL whenever LDL is present, total
\* cholesterol being ignored, and on total cholesterol otherwise; a mmol_L value
\* is multiplied by 38.67 first, a mg/dL value is banded as given.  LDL: >=190
\* gives 10, >=160 gives 30, >=130 gives 50, >=100 gives 80, else 100.  Total
\* cholesterol: >=240 gives 20, >=200 gives 60, else 100.  (The band then goes
\* through the medication cap and the recency penalty.)
C11_LipidBands ==
  (Calculated /\ LipidsGiven) =>
    /\ lipidsBand(profile.lipids) = C11_Band
    /\ Score(6) = CappedAndAged(C11_Band, profile.lipids.onMeds,
                                profile.lipids.measuredWithinMonths)

\* LDL 5.0 mmol/L (193 mg/dL, band 10) next to a total cholesterol of
\* 5.1 mmol/L (197 mg/dL, band 100 on its own)
C11_Witness ==
  /\ Calculated
  /\ profile.lipids.provided
  /\ profile.lipids.unit = "mmol_L"
  /\ profile.lipids.ldl = 50 /\ profile.lipids.totalChol = 51
  /\ ~profile.lipids.onMeds /\ profile.lipids.measuredWithinMonths = Undefined
  /\ Score(6) = 10

C12_A1cBand(a) == IF a >= 65 THEN 20 ELSE IF a >= 57 THEN 60 ELSE 100

C12_FastingBand(v, unit) ==
  IF AtLeastMgDl(v, unit, 1800, 126) THEN 20
  ELSE IF AtLeastMgDl(v, unit, 1800, 100) THEN 60
  ELSE 100

C12_Band ==
  IF profile.glucose.a1c > 0 THEN C12_A1cBand(profile.glucose.a1c)
  ELSE C12_FastingBand(profile.glucose.fasting, profile.glucose.unit)

\* C12: measured glucose is banded on A1c whenever A1c is present, fasting
\* glucose being ignored, and on fasting glucose otherwise, multiplied by 18
\* when tagged mmol_L.  A1c: >=6.5 gives 20, >=5.7 gives 60, else 100.  Fasting
\* (mg/dL): >=126 gives 20, >=100 gives 60, else 100.  (The band then goes
\* through the medication cap and the recency penalty.)
C12_GlucoseBands ==
  (Calculated /\ GlucoseGiven) =>
    /\ glucoseBand(profile.glucose) = C12_Band
    /\ Score(7) = CappedAndAged(C12_Band, profile.glucose.onMeds,
                                profile.glucose.measuredWithinMonths)

\* fasting 7.0 mmol/L is exactly 126 mg/dL
C12_Witness ==
  /\ Calculated
  /\ profile.glucose.provided
  /\ profile.glucose.unit = "mmol_L"
  /\ profile.glucose.a1c = Undefined /\ profile.glucose.fasting = 70
  /\ ~profile.glucose.onMeds /\ profile.glucose.measuredWithinMonths = Undefined
  /\ Score(7) = 20

(***************************************************************************)
(* C13: sleep component bands.                                             *)
(***************************************************************************)
\* sleep bands of the claim, in half hours: <<score, member>>
C13_Bands(s) ==
  << <<100, 14 <= s /\ s <= 18>>,
     <<70, (12 <= s /\ s < 14) \/ (18 < s /\ s < 20)>>,
     <<40, (10 <= s /\ s < 12) \/ (20 <= s /\ s < 22)>>,
     <<0, s < 10 \/ s >= 22>> >>

C13_Examples == {<<14, 100>>, <<18, 100>>, <<19, 70>>, <<20, 40>>, <<22, 0>>}

\* C13: the LE8 sleep component is 100 for sleepHours in [7,9], 70 for [6,7)
\* or (9,10), 40 for [5,6) or [10,11) and 0 below 5 or from 11 on; 7.0 and
\* 9.0 give 100, 9.5 gives 70, 10.0 gives 40, 11.0 gives 0; every value lies
\* in exactly one band.
C13_SleepBands ==
  Calculated =>
    /\ Cardinality({i \in 1..4 : C13_Bands(profile.sleepHours)[i][2]}) = 1
    /\ \A i \in 1..4 :
         C13_Bands(profile.sleepHours)[i][2] => Score(4) = C13_Bands(profile.sleepHours)[i][1]
    /\ \A e \in C13_Examples : profile.sleepHours = e[1] => Score(4) = e[2]

C13_Witness == Calculated /\ profile.sleepHours = 20 /\ Score(4) = 40

(***************************************************************************)
(* C14: nicotine component.                                                *)
(***************************************************************************)
\* the score the claim gives, Undefined where the claim names no case
\* (yearsSinceQuit in tenths of a year)
C14_Claimed(p) ==
  IF p.smoker THEN 0
  ELSE IF p.yearsSinceQuit # Undefined
       THEN (IF p.yearsSinceQuit >= 50 THEN 100
             ELSE IF p.yearsSinceQuit >= 10 THEN 75 ELSE 50)
  ELSE IF p.yearsSmoked # Undefined /\ p.yearsSmoked > 0 THEN 50
  ELSE IF p.yearsSmoked = Undefined THEN 100
  ELSE Undefined

\* C14: the LE8 nicotine component is 0 for a current smoker; 100 for a
\* non-smoker with no smoking-history fields set; with yearsSinceQuit recorded
\* it is 100 from 5 years, 75 from 1 year and 50 below 1 year; with a smoking
\* history (yearsSmoked > 0) and no recorded quit time it is 50.
C14_NicotineAsStated ==
  (Calculated /\ C14_Claimed(profile) # Undefined) => Score(3) = C14_Claimed(profile)

\* the same statement with a recorded yearsSinceQuit of 0 left out
C14_NicotineExceptZero ==
  (Calculated /\ C14_Claimed(profile) # Undefined /\ profile.yearsSinceQuit # 0)
    => Score(3) = C14_Claimed(profile)

C14_Witness ==
  /\ Calculated /\ ~profile.smoker
  /\ profile.yearsSinceQuit = 0 /\ profile.yearsSmoked = Undefined
  /\ Score(3) = 100

(***************************************************************************)
(* C15: physical-activity component.                                       *)
(***************************************************************************)
\* round(steps/100 x 7) over the rationals, halves upward
C15_Proxy(steps) == (7 * steps + 50) \div 100

C15_Band(m) ==
  IF m >= 150 THEN 100
  ELSE IF m >= 90 THEN 80
  ELSE IF m >= 60 THEN 60
  ELSE IF m >= 30 THEN 40
  ELSE IF m >= 1 THEN 20
  ELSE 0

\* the step counts a profile with b steps is compared with: its predecessor
\* and every sampled count below it
C15_Below(b) ==
  {a \in {b - 1, 0, 7, 8, 421, 850, 1279, 2135, 3000, 8000, 12000} : 0 <= a /\ a <= b}

\* C15: the LE8 physical-activity component is banded on
\* m = round(dailySteps/100 x 7): 100 from 150, 80 from 90, 60 from 60, 40
\* from 30, 20 from 1, 0 at 0; and it never decreases when the step count
\* grows.
C15_ActivityBands ==
  Calculated =>
    /\ additionalMetrics.physicalActivity.info.mvpaMinutesProxyPerWeek
         = C15_Proxy(profile.dailySteps)
    /\ Score(2) = C15_Band(C15_Proxy(profile.dailySteps))
    /\ \A a \in C15_Below(profile.dailySteps) :
         paScoreOf(calcActivityGuidelines(a).mvpaMinutesProxyPerWeek) <= Score(2)

C15_Witness ==
  /\ Calculated /\ profile.dailySteps = 1279
  /\ additionalMetrics.physicalActivity.info.mvpaMinutesProxyPerWeek = 90
  /\ Score(2) = 80

(***************************************************************************)
(* C16: alcohol risk.                                                      *)
(***************************************************************************)
C16_Info == additionalMetrics.alcohol.info

C16_Binge ==
  /\ profile.maxDrinksPerOccasion # Undefined
  /\ \/ profile.gender = Male /\ profile.maxDrinksPerOccasion >= 5
     \/ profile.gender = Female /\ profile.maxDrinksPerOccasion >= 4

C16_Heavy ==
  \/ profile.gender = Male /\ profile.alcoholDrinksPerWeek >= 15
  \/ profile.gender = Female /\ profile.alcoholDrinksPerWeek >= 8

\* C16: calcAlcoholRisk returns riskLevel "high" whenever bingeFlag is true,
\* whatever the weekly total; bingeFlag is true exactly when
\* maxDrinksPerOccasion is provided and >= 5 (male) or >= 4 (female); without
\* a binge riskLevel is "high" from 15 (male) or 8 (female) drinks a week,
\* "elevated" for a positive total below that, "none" for 0.  With 6 drinks
\* per occasion and 2 per week a woman gets bingeFlag and "high".
C16_AlcoholRisk ==
  (Calculated /\ profile.gender \in {Male, Female}) =>
    /\ C16_Info.bingeFlag = C16_Binge
    /\ C16_Info.bingeFlag => C16_Info.riskLevel = "high"
    /\ ~C16_Info.bingeFlag =>
         C16_Info.riskLevel = (IF C16_Heavy THEN "high"
                               ELSE IF profile.alcoholDrinksPerWeek > 0 THEN "elevated"
                               ELSE "none")
    /\ (profile.gender = Female /\ profile.maxDrinksPerOccasion = 6
          /\ profile.alcoholDrinksPerWeek = 2)
         => (C16_Info.bingeFlag /\ C16_Info.riskLevel = "high")

C16_Witness ==
  /\ Calculated /\ profile.gender = Female
  /\ profile.maxDrinksPerOccasion = 6 /\ profile.alcoholDrinksPerWeek = 2
  /\ C16_Info.bingeFlag /\ C16_Info.riskLevel = "high"

(***************************************************************************)
(* C17: smoking risk.                                                      *)
(***************************************************************************)
C17_Info == additionalMetrics.smoking.info

\* cigarettesPerDay x yearsSmoked: twenty times the pack years, missing
\* fields counted as 0
C17_CigYears == OrZero(profile.cigarettesPerDay) * OrZero(profile.yearsSmoked)

C17_AgeInRange == profile.age >= 50 /\ profile.age <= 80

\* t (tenths) is a one-decimal value nearest to cigarettesPerDay/20 x yearsSmoked
C17_NearestTenth(t) == C8_Abs(2 * t - C17_CigYears) <= 1

C17_TieRoundedDown ==
  /\ Calculated /\ profile.smoker /\ profile.age = 50
  /\ profile.cigarettesPerDay = 19 /\ profile.yearsSmoked = 21
  /\ C17_Info.packYears = 199 /\ C17_Info.riskLevel = "moderate"
  /\ ~C17_Info.lungCancerScreeningEligible

(***************************************************************************)
(* C18: diet score.                                                        *)
(***************************************************************************)
C18_QVal(q) == IF q = Poor THEN 1 ELSE IF q = Average THEN 3 ELSE 5

C18_FfVal(f) == IF f = Never THEN 1 ELSE IF f = Rarely THEN 2 ELSE IF f = Weekly THEN 3 ELSE 5

\* penalty table (0,0,5,15,25,35), indexed 0..5
C18_Penalty(i) == <<0, 0, 5, 15, 25, 35>>[i + 1]

C18_Clamp(x) == IF x < 0 THEN 0 ELSE IF x > 100 THEN 100 ELSE x

C18_Score(q, f) == C18_Clamp(C18_QVal(q) * 20 - C18_Penalty(C18_FfVal(f)))

C18_Level(s) ==
  IF s >= 80 THEN "low" ELSE IF s >= 60 THEN "moderate"
  ELSE IF s >= 40 THEN "high" ELSE "very_high"

\* C18: calcDietScore maps dietQuality Poor/Average/Good to qVal 1/3/5 and
\* fastFoodFrequency Never/Rarely/Weekly/Frequent to ffVal 1/2/3/5, returns
\* score = clamp(qVal x 20 - penalty[ffVal], 0, 100) with the penalty table
\* (0,0,5,15,25,35) and level "low" from 80, "moderate" from 60, "high" from
\* 40, else "very_high"; over all 12 combinations the score is in [0,100], a
\* better dietQuality never lowers it and a higher fast-food frequency never
\* raises it.
C18_DietScore ==
  Calculated =>
    /\ calcDietScore(profile.dietQuality, profile.fastFoodFrequency).qVal
         = C18_QVal(profile.dietQuality)
    /\ calcDietScore(profile.dietQuality, profile.fastFoodFrequency).ffVal
         = C18_FfVal(profile.fastFoodFrequency)
    /\ additionalMetrics.diet.score = C18_Score(profile.dietQuality, profile.fastFoodFrequency)
    /\ additionalMetrics.diet.level = C18_Level(additionalMetrics.diet.score)
    /\ additionalMetrics.diet.score >= 0 /\ additionalMetrics.diet.score <= 100
    /\ \A q \in DietQuality :
         C18_QVal(q) >= C18_QVal(profile.dietQuality)
           => calcDietScore(q, profile.fastFoodFrequency).score >= additionalMetrics.diet.score
    /\ \A f \in FastFoodFrequency :
         C18_FfVal(f) >= C18_FfVal(profile.fastFoodFrequency)
           => calcDietScore(profile.dietQuality, f).score <= additionalMetrics.diet.score

\* the combination the lower clamp acts on: 20 - 35
C18_Witness ==
  /\ Calculated /\ profile.dietQuality = Poor /\ profile.fastFoodFrequency = Frequent
  /\ additionalMetrics.diet.score = 0 /\ additionalMetrics.diet.level = "very_high"

(***************************************************************************)
(* C19: confidence and data completeness.                                  *)
(***************************************************************************)
\* M: components whose basis is "measured"
C19_M == Cardinality({i \in 1..8 : Basis(i) = "measured"})

\* S: components whose basis is "measured" or "self_report"
C19_S == Cardinality({i \in 1..8 : Basis(i) \in {"measured", "self_report"}})

\* C19: calculateLe8Summary returns confidence "high" if M >= 2, else
\* "medium" if S >= 6, else "low"; dataCompleteness reports measuredCount = S,
\* proxyCount = 8 - S and total = 8, so measuredCount + proxyCount = 8.
C19_Confidence ==
  Calculated =>
    /\ le8.confidence = (IF C19_M >= 2 THEN "high"
                         ELSE IF C19_S >= 6 THEN "medium" ELSE "low")
    /\ le8.dataCompleteness.measuredCount = C19_S
    /\ le8.dataCompleteness.proxyCount = 8 - C19_S
    /\ le8.dataCompleteness.total = 8
    /\ le8.dataCompleteness.measuredCount + le8.dataCompleteness.proxyCount = 8

\* one measured vital next to two vitals known from the history: M = 2, S = 6
C19_Witness ==
  /\ Calculated /\ C19_M = 2 /\ C19_S = 6
  /\ le8.confidence = "high"
  /\ le8.dataCompleteness.measuredCount = 6 /\ le8.dataCompleteness.proxyCount = 2

(***************************************************************************)
(* C20: generateHealthProjection never rejects.                            *)
(***************************************************************************)
C20_Settled == pc \in {"settled", "settled_legacy"}

\* the text the version at hand reads from the reply
C20_Text ==
  IF pc = "settled" /\ response.partsText # <<>> THEN response.partsText ELSE response.text

C20_Blank(t) == \A i \in 1..Len(t) : t[i] = " "

C20_CallFails == response.kind = "rejected"

C20_TextEmpty == response.kind = "null" \/ C20_Blank(C20_Text)

\* no fence is followed by a second fence, and no opening bracket by its
\* closing bracket
C20_NoJsonBlock ==
  /\ response.kind = "response"
  /\ ~\E i, j \in 1..Len(C20_Text) :
        /\ i < j
        /\ \/ C20_Text[i] \in Fences /\ C20_Text[j] \in Fences
           \/ C20_Text[i] = "{" /\ C20_Text[j] = "}"
           \/ C20_Text[i] = "[" /\ C20_Text[j] = "]"

C20_Spaces == {[i \in 1..n |-> " "] : n \in 0..MaxTextLen}

\* the JSON texts over the tokens, nested up to depth arrays deep
RECURSIVE C20_Json(_)
C20_Json(depth) ==
  IF depth = 0
  THEN {[i \in 1..n |-> "1"] : n \in 1..MaxTextLen}
         \cup {<<"null">>}
         \cup {<<"[">> \o w \o <<"]">> : w \in C20_Spaces}
         \cup {<<"{">> \o w \o <<"}">> : w \in C20_Spaces}
  ELSE C20_Json(depth - 1)
         \cup {<<"[">> \o w[1] \o v \o w[2] \o <<"]">> :
                 w \in C20_Spaces \X C20_Spaces, v \in C20_Json(depth - 1)}

\* the fixed fallback of the claim
C20_IsFallback(v) ==
  /\ "riskCards" \in DOMAIN v
  /\ Len(v.riskCards) = 1
  /\ v.riskCards[1].title = "CONNECTION ERROR"
  /\ v.healthScoreCurrent = 0 /\ v.healthScoreFuture = 0 /\ v.lifeExpectancy = 0
  /\ v.trajectory = <<>> /\ v.weightTrajectory = <<>>
  /\ v.predictedConditions = <<>> /\ v.organHighlights = <<>>

\* C20: generateHealthProjection never rejects; if the AI call fails, the
\* response text is empty, no JSON block can be extracted or JSON.parse fails
\* (what was extracted is not JSON), it resolves to the fixed fallback: a
\* single "CONNECTION ERROR" risk card, healthScoreCurrent = healthScoreFuture
\* = lifeExpectancy = 0, empty trajectory, weightTrajectory,
\* predictedConditions and organHighlights.
C20_NeverRejects ==
  /\ projection.state # "rejected"
  /\ C20_Settled =>
       /\ projection.state = "fulfilled"
       /\ (C20_CallFails \/ C20_TextEmpty \/ C20_NoJsonBlock)
            => C20_IsFallback(projection.value)
       /\ \/ C20_IsFallback(projection.value)
          \/ projection.value.parsed \in C20_Json((MaxTextLen - 1) \div 2)
  /\ ~C20_Settled => projection = Pending

\* a reply whose block is extracted and is not JSON
C20_Witness ==
  /\ pc = "settled"
  /\ response = Reply(<<"fence_json", "{", "fence">>, <<>>)
  /\ projection.state = "fulfilled" /\ C20_IsFallback(projection.value)

(***************************************************************************)
(* C21: the resolved value matches the SimulationResponse schema.          *)
(***************************************************************************)
\* v is an object that carries the named fields of SimulationResponse; what
\* JSON.parse made of a text over the tokens (a number, an array, {}) is not
C21_MatchesSchema(v) ==
  {"riskCards", "healthScoreCurrent", "healthScoreFuture", "trajectory",
   "weightTrajectory"} \subseteq DOMAIN v

\* C21: every value generateHealthProjection resolves to is one JSON object
\* matching the SimulationResponse schema, the parsed reply or the fallback;
\* a reply whose extracted JSON is an array, or an object missing the fields,
\* is not returned as a successful result.
C21_ResolvesToSchema ==
  C20_Settled => (projection.state = "fulfilled" /\ C21_MatchesSchema(projection.value))

\* the reply [1] is resolved as it was parsed
C21_ArrayReturned ==
  /\ pc = "settled"
  /\ response = Reply(<<"[", "1", "]">>, <<>>)
  /\ projection = [state |-> "fulfilled", value |-> [parsed |-> <<"[", "1", "]">>]]

(***************************************************************************)
(* C23: range of the FINDRISC score.                                       *)
(***************************************************************************)
\* C23: calculateFindrisc lies in 0..16 for every profile (the largest sum is
\* 4+3+4+2+1+2), so the diabetes probability of generateHealthProjection is
\* one of 1, 4, 17, 33 and the 50% band is never produced.
C23_FindriscRange ==
  Calculated =>
    /\ findriscScore \in 0..16
    /\ diabetesProb \in {1, 4, 17, 33}
    /\ diabetesProb # 50

\* every term at its largest
C23_Witness ==
  /\ Calculated /\ findriscScore = 16 /\ diabetesProb = 33
  /\ profile.age > 64 /\ bmi > 300 /\ profile.waistCm > 102
  /\ profile.activityLevel = Sedentary /\ profile.dietQuality = Poor
  /\ "Hypertension" \in profile.existingConditions

(***************************************************************************)
(* C24: the step tests of calcActivityGuidelines are subsumed by the proxy. *)
(***************************************************************************)
C24_Info == additionalMetrics.physicalActivity.info

\* C24: meetsGuidelineBySteps implies meetsGuidelineByProxyMinutes for every
\* step count, so overallMeetsMinimumGuideline equals (mvpaProxy >= 150) and
\* additionalBenefitsTierReached equals (mvpaProxy >= 300); a step count that
\* calcStepsCategory calls "sedentary_lifestyle_index" (below 5000) can have
\* overallMeetsMinimumGuideline true.
C24_StepsSubsumed ==
  Calculated =>
    /\ C24_Info.meetsGuidelineBySteps = (profile.dailySteps >= 8000)
    /\ C24_Info.meetsGuidelineByProxyMinutes = (C24_Info.mvpaMinutesProxyPerWeek >= 150)
    /\ C24_Info.meetsGuidelineBySteps => C24_Info.meetsGuidelineByProxyMinutes
    /\ C24_Info.overallMeetsMinimumGuideline = (C24_Info.mvpaMinutesProxyPerWeek >= 150)
    /\ C24_Info.additionalBenefitsTierReached = (C24_Info.mvpaMinutesProxyPerWeek >= 300)
    /\ (additionalMetrics.physicalActivity.stepsCategory = "sedentary_lifestyle_index")
         = (profile.dailySteps < 5000)

\* 3000 steps: sedentary by category, guideline met by the proxy of 210
C24_Witness ==
  /\ Calculated /\ profile.dailySteps = 3000
  /\ additionalMetrics.physicalActivity.stepsCategory = "sedentary_lifestyle_index"
  /\ C24_Info.mvpaMinutesProxyPerWeek = 210
  /\ ~C24_Info.meetsGuidelineBySteps
  /\ C24_Info.overallMeetsMinimumGuideline

(***************************************************************************)
(* C25: confidence in terms of the three vitals.                           *)
(***************************************************************************)
\* the components of blood lipids, blood glucose and blood pressure
C25_Vitals == {6, 7, 8}

C25_AnyMeasured == \E i \in C25_Vitals : Basis(i) = "measured"

C25_AllSelfReported == \A i \in C25_Vitals : Basis(i) = "self_report"

\* C25: BMI always has basis "measured", nicotine and sleep "self_report",
\* diet and physical activity "proxy"; so confidence is "high" exactly when
\* one of blood pressure, lipids or glucose is measured, "medium" exactly when
\* none is measured and all three conditions are self-reported, else "low";
\* measuredCount is in 3..6 and proxyCount in 2..5.
C25_ConfidenceByVitals ==
  Calculated =>
    /\ Basis(1) = "proxy" /\ Basis(2) = "proxy"
    /\ Basis(3) = "self_report" /\ Basis(4) = "self_report"
    /\ Basis(5) = "measured"
    /\ (le8.confidence = "high") = C25_AnyMeasured
    /\ (le8.confidence = "medium") = (~C25_AnyMeasured /\ C25_AllSelfReported)
    /\ (le8.confidence = "low") = (~C25_AnyMeasured /\ ~C25_AllSelfReported)
    /\ C25_AllSelfReported =>
         (/\ RecognizedConditions \subseteq profile.existingConditions
          /\ ~BpGiven /\ ~LipidsGiven /\ ~GlucoseGiven)
    /\ le8.dataCompleteness.measuredCount \in 3..6
    /\ le8.dataCompleteness.proxyCount \in 2..5

\* a single measured vital, nothing in the history
C25_Witness ==
  /\ Calculated /\ profile.existingConditions = {}
  /\ Cardinality({i \in C25_Vitals : Basis(i) = "measured"}) = 1
  /\ le8.confidence = "high"
  /\ le8.dataCompleteness.measuredCount = 4 /\ le8.dataCompleteness.proxyCount = 4

(***************************************************************************)
(* C26: a measured vital does not depend on the reported conditions.       *)
(***************************************************************************)
\* the profile at hand with another list of conditions
C26_With(c) == [profile EXCEPT !.existingConditions = c]

\* the component i has the score and basis of r and is measured
C26_Same(i, r) == r.score = Score(i) /\ r.basis = Basis(i) /\ Basis(i) = "measured"

\* C26: when a measurement is present for blood pressure, lipids or glucose,
\* the score and basis of that component do not depend on existingConditions:
\* profiles that differ only in whether "Hypertension", "High Cholesterol" or
\* "Type 2 Diabetes" is listed get the same component score.
C26_MeasuredIgnoresHistory ==
  Calculated =>
    \A c \in SUBSET RecognizedConditions :
      /\ BpGiven => C26_Same(8, calcBPScore(C26_With(c)))
      /\ LipidsGiven => C26_Same(6, calcLipidsScore(C26_With(c)))
      /\ GlucoseGiven => C26_Same(7, calcGlucoseScore(C26_With(c)))

\* a normal measured glucose in a profile that lists all three conditions
C26_Witness ==
  /\ Calculated /\ GlucoseGiven
  /\ profile.existingConditions = RecognizedConditions
  /\ Basis(7) = "measured" /\ Score(7) = 100
  /\ calcGlucoseScore(C26_With({})).score = 100

(***************************************************************************)
(* C30: gender Other is scored with the female thresholds.                 *)
(***************************************************************************)
\* the profile at hand with the gender replaced
C30_As(g) == [profile EXCEPT !.gender = g]

\* the waist points of the FINDRISC score at hand
C30_WaistPoints ==
  findriscScore - findriscAge(profile) - findriscBmi(bmi) - findriscActivity(profile)
    - findriscDiet(profile) - findriscHypertension(profile)

\* the female waist points, heavy threshold and binge threshold as stated
C30_FemaleWaist ==
  IF profile.waistCm >= 80 /\ profile.waistCm <= 88 THEN 3
  ELSE IF profile.waistCm > 88 THEN 4 ELSE 0

C30_FemaleHeavy == profile.alcoholDrinksPerWeek >= 8

C30_FemaleBinge ==
  profile.maxDrinksPerOccasion # Undefined /\ profile.maxDrinksPerOccasion >= 4

\* the results a profile p gets from the engine, in the order of the state
C30_ResultsOf(p, b) ==
  <<calculateWHR(p.waistCm, p.hipCm),
    calculateFindrisc(p, b),
    calculateCVDRiskProxy(p, b),
    diabetesProbability(calculateFindrisc(p, b)),
    additionalMetricsOf(p, calcActivityGuidelines(p.dailySteps),
                        calcDietScore(p.dietQuality, p.fastFoodFrequency)),
    calculateLe8Summary(p, b, calcActivityGuidelines(p.dailySteps),
                        calcDietScore(p.dietQuality, p.fastFoodFrequency))>>

C30_Results == <<whr, findriscScore, cvdRiskPercent, diabetesProb, additionalMetrics, le8>>

\* C30: a profile with gender Other gets waist points 3 for 80-88 cm and 4
\* above 88 cm, the heavy threshold 8 drinks a week and the binge threshold
\* 4 drinks, and every result of the engine is the one the same profile
\* with gender Female gets (so the CVD proxy has no 1.3 multiplier).
C30_OtherAsFemale ==
  Calculated /\ profile.gender = Other =>
    /\ C30_WaistPoints = C30_FemaleWaist
    /\ additionalMetrics.alcohol.info.heavyDrinkingFlag = C30_FemaleHeavy
    /\ additionalMetrics.alcohol.info.bingeFlag = C30_FemaleBinge
    /\ cvdRiskPercent = calculateCVDRiskProxy(C30_As(Female), bmi)
    /\ C30_Results = C30_ResultsOf(C30_As(Female), bmi)

\* gender Other with a 93 cm waist: 4 waist points where a man gets none,
\* and a CVD proxy below the one of the same man
C30_Witness ==
  /\ Calculated /\ profile.gender = Other /\ profile.waistCm = 93
  /\ C30_WaistPoints = 4
  /\ findriscWaist(C30_As(Male)) = 0
  /\ cvdRiskPercent < calculateCVDRiskProxy(C30_As(Male), bmi)

(***************************************************************************)
(* C22: the metrics engine is deterministic and stateless.                 *)
(***************************************************************************)
\* the profile at hand has been evaluated before and is evaluated again
C22_Again == Calculated /\ remembered.taken /\ remembered.profile = profile

C22_SameResults == C22_Again => engineResults = remembered.results

C22_ProfileKept == [][pc = "input" /\ pc' = "calculated" => profile' = profile]_vars

C27_Quiescent == view = "dashboard" /\ inFlight = {}

C27_NullIffNoScenario == C27_Quiescent => (simulationData = Null <=> activeScenarios = {})

C27_ForActiveScenarios ==
  C27_Quiescent /\ simulationData # Null => simulationData.computedFor = activeScenarios

C27_NotSimulating == C27_Quiescent => ~isSimulating

\* the result that arrives belongs to the latest toggle
C27_NoStaleOverwrite ==
  [][\A r \in inFlight : inFlight' = inFlight \ {r} => r.toggle = toggles]_vars

\* C27: under any interleaving of toggleSimulation clicks and arrivals of
\* results, once no request is in flight, simulationData is null exactly
\* when activeScenarios is empty, a non-null simulationData is the result
\* computed for the active combination of scenarios, and isSimulating is
\* false.
C27_QuiescentConsistent ==
  C27_NullIffNoScenario /\ C27_ForActiveScenarios /\ C27_NotSimulating

\* a scenario switched on and off again before its result arrived
C27_StaleResultShown ==
  /\ C27_Quiescent /\ toggles = 2 /\ activeScenarios = {}
  /\ simulationData # Null /\ simulationData.toggle = 1

(***************************************************************************)
(* C28: the index of the carousel.                                         *)
(***************************************************************************)
\* C28: in every reachable state of the Dashboard,
\* 0 <= currentCardIndex < activeData.riskCards.length, every response
\* having at least one risk card.
C28_IndexInRange ==
  view = "dashboard" =>
    /\ data.riskCards >= 1
    /\ 0 <= currentCardIndex /\ currentCardIndex < activeData.riskCards

\* the last card of a simulated response was shown when the scenarios were
\* switched off
C28_IndexLeftBehind ==
  /\ view = "dashboard" /\ simulationData = Null /\ activeScenarios = {}
  /\ data.riskCards = 1 /\ currentCardIndex = MaxCards - 1

(***************************************************************************)
(* C29: the views of App.                                                  *)
(***************************************************************************)
\* C29: the view is 'dashboard' only when both userProfile and
\* simulationData are non-null.
C29_DashboardHasData == view = "dashboard" => userProfile # Null /\ data # Null

\* every entry into 'loading' is followed by 'dashboard'
C29_LoadingLeadsToDashboard == (view = "loading") ~> (view = "dashboard")

\* the error branch from 'loading' back to 'baseline' or 'form' is never taken
C29_NoErrorBranch ==
  [][view = "loading" => view' \in {"loading", "dashboard"}]_vars

\* handleReset returns to 'form' and clears simulationData
C29_ResetClears ==
  [][view = "dashboard" /\ view' # "dashboard" => view' = "form" /\ data' = Null]_vars

\* the AI replied with the JSON text null: the view is 'dashboard', nothing
\* is rendered for it and no handler is left to leave it
C29_BlankDashboard ==
  /\ view = "dashboard" /\ data = Null /\ userProfile # Null
  /\ pc \in {"idle", "idle_legacy"}
  /\ ~ENABLED HandleReset

====
